---- MODULE Spec2Model ----
(***************************************************************************)
(* Empire OS: the offline-first synchronisation core.                      *)
(*                                                                         *)
(* State: the localStorage cache (entries, pending queue, date index), the *)
(* in-memory index, the app's syncInProgress flag, navigator.onLine, the   *)
(* remote file store, and the asynchronous tasks suspended on a request.   *)
(* Dates are numbered 1..MaxDate in calendar order, two sample documents 1 and 2,   *)
(* 0 is the absent markdown / the null sha.                                *)
(***************************************************************************)
EXTENDS Integers, Sequences, FiniteSets, TLC

\* ---------------------------------------------------------------- bounds
MaxDate == 2
MaxSaves == 2
MaxTasks == 2

Dates == 1..MaxDate
Slots == 1..MaxTasks

\* two encoded documents that differ
Docs == {1, 2}

\* ------------------------------------------------------ program constants
NullSha == 0
NoMarkdown == 0
maxRetries == 3

VARIABLES
    localStorage,     \* [entries, pending, index]: KEYS.ENTRIES, KEYS.PENDING, KEYS.INDEX
    _index,           \* index.js: the in-memory date list
    syncInProgress,   \* app: the drain's in-flight guard
    onLine,           \* navigator.onLine
    remote,           \* the remote store: date -> [content, sha], sha = NullSha when absent
    tasks,            \* slot -> the asynchronous task suspended there, or Idle
    confirmed,        \* date -> [content, sha] of the last write or hydrating read the client saw succeed
    saves,            \* how many documents the user has stored (saveCurrentEntry, import of one entry)
    retry,            \* github client: one run of withRetry
    call,             \* the last operation run on the cache on its own: name, argument, cache before it, result
    page,             \* index.js: _currentPage, _searchQuery and the last result of getPage
    journal           \* journal: the entry handed to the codec or the validator, and the results

syncVars == <<localStorage, _index, syncInProgress, onLine, remote, tasks, confirmed, saves>>
auxVars == <<retry, call, page, journal>>
vars == <<localStorage, _index, syncInProgress, onLine, remote, tasks, confirmed, saves,
          retry, call, page, journal>>

\* the value of a variable whose module takes no part in a specification
NotRun == "not run"

\* ------------------------------------------------------------- storage.js
NoEntry == [exists |-> FALSE, markdown |-> NoMarkdown, sha |-> NullSha, synced |-> FALSE]

getEntry(ls, date) == ls.entries[date]

\* cached && cached.markdown
hasMarkdown(ls, date) ==
    getEntry(ls, date).exists /\ getEntry(ls, date).markdown # NoMarkdown

\* [...dates].sort().reverse()
sortReverse(seq) == SortSeq(seq, LAMBDA a, b : a > b)

includes(seq, d) == \E k \in 1..Len(seq) : seq[k] = d

filterOut(seq, d) == SelectSeq(seq, LAMBDA x : x # d)

\* updateIndex that appends without sorting
updateIndex_NoSort(ls, date) ==
    IF includes(ls.index, date) THEN ls
    ELSE [ls EXCEPT !.index = Append(ls.index, date)]

updateIndex(ls, date) ==
    IF includes(ls.index, date) THEN ls
    ELSE [ls EXCEPT !.index = sortReverse(Append(ls.index, date))]

setIndex(ls, dates) == [ls EXCEPT !.index = sortReverse(dates)]

\* saveEntry keeping the stored record's synced flag
Storage_saveEntry_KeepFlag(ls, date, markdown, sha, synced) ==
    updateIndex(
        [ls EXCEPT !.entries[date] =
            [exists |-> TRUE, markdown |-> markdown, sha |-> sha,
             synced |-> IF ls.entries[date].exists THEN ls.entries[date].synced ELSE synced]],
        date)

Storage_saveEntry(ls, date, markdown, sha, synced) ==
    updateIndex(
        [ls EXCEPT !.entries[date] =
            [exists |-> TRUE, markdown |-> markdown, sha |-> sha, synced |-> synced]],
        date)

addPending(ls, date) ==
    IF includes(ls.pending, date) THEN ls
    ELSE [ls EXCEPT !.pending = Append(ls.pending, date)]

removePending(ls, date) == [ls EXCEPT !.pending = filterOut(ls.pending, date)]

\* markSynced that leaves the queue alone
markSynced_NoDequeue(ls, date, sha) ==
    IF ls.entries[date].exists
    THEN [ls EXCEPT !.entries[date].synced = TRUE, !.entries[date].sha = sha]
    ELSE ls

markSynced(ls, date, sha) ==
    removePending(
        IF ls.entries[date].exists
        THEN [ls EXCEPT !.entries[date].synced = TRUE, !.entries[date].sha = sha]
        ELSE ls,
        date)

\* markPending that only queues the date
markPending_QueueOnly(ls, date) == addPending(ls, date)

\* markPending that writes the flag markSynced writes
markPending_FlagTrue(ls, date) ==
    addPending(
        IF ls.entries[date].exists
        THEN [ls EXCEPT !.entries[date].synced = TRUE]
        ELSE ls,
        date)

markPending(ls, date) ==
    addPending(
        IF ls.entries[date].exists
        THEN [ls EXCEPT !.entries[date].synced = FALSE]
        ELSE ls,
        date)

\* --------------------------------------------------------------- index.js
\* addDate: the new in-memory list; Storage.setIndex(_index) persists it
\* addDate without the includes test
addDate_NoCheck(idx, date) == sortReverse(Append(idx, date))

addDate(idx, date) ==
    IF includes(idx, date) THEN idx ELSE sortReverse(Append(idx, date))

Index_addDate(ls, idx, date) ==
    IF includes(idx, date) THEN ls ELSE setIndex(ls, addDate(idx, date))

\* ------------------------------------------------------------------ tasks
\* kind: whose await it is ("save": saveCurrentEntry -> syncEntry, "drain":
\* syncPendingEntries -> syncEntry, "load": loadEntry); date, markdown, sha: the
\* request's arguments; i, lastError: withRetry's locals; phase "sent": the request
\* is out, "resp": the remote store has applied it and the response is on its way
\* (rdoc, rsha: its content and sha); list, pos: the drain's snapshot and position
Idle == [kind |-> "idle", date |-> 0, markdown |-> NoMarkdown, sha |-> NullSha,
         i |-> 0, lastError |-> 0, phase |-> "none", rdoc |-> NoMarkdown,
         rsha |-> NullSha, list |-> <<>>, pos |-> 0]

isPut(t) == t.kind \in {"save", "drain"}

freeSlots == {s \in Slots : tasks[s] = Idle}
firstFree == CHOOSE s \in freeSlots : \A t \in freeSlots : s <= t

\* a request handed to fetch by putFile / getFile under withRetry, attempt i = 0
putRequest(kind, date, markdown, sha, list, pos) ==
    [Idle EXCEPT !.kind = kind, !.date = date, !.markdown = markdown,
                 !.sha = sha, !.phase = "sent", !.list = list, !.pos = pos]

getRequest(date) == [Idle EXCEPT !.kind = "load", !.date = date, !.phase = "sent"]

\* a loop that looks at the first queued date only
nextSyncable_FirstOnly(ls, list, p) ==
    IF p = 1 /\ Len(list) >= 1 /\ hasMarkdown(ls, list[1]) THEN 1 ELSE 0

RECURSIVE nextSyncable(_, _, _)
\* the drain's for-loop from position p: syncEntry returns at once for a date
\* without a cached document, so the first date that issues a write (0: none)
nextSyncable(ls, list, p) ==
    IF p > Len(list) THEN 0
    ELSE IF hasMarkdown(ls, list[p]) THEN p
    ELSE nextSyncable(ls, list, p + 1)

\* syncEntry up to its await: the write of the cached document with the cached sha
syncEntryRequest(ls, kind, date, list, pos) ==
    putRequest(kind, date, getEntry(ls, date).markdown, getEntry(ls, date).sha, list, pos)

\* ---------------------------------------------------------- github client
\* putFile throwing on server errors only
putFileThrows_5xxOnly(status) == status >= 500

\* putFile: !response.ok throws
putFileThrows(status) == status \notin 200..299

\* withRetry: the statuses it rethrows at once
fatalStatus_No404(status) == status \in {401, 403}
fatalStatus(status) == status \in {401, 403, 404}

\* withRetry's catch after failed attempt i (the delay included): TRUE when the
\* loop makes another attempt, FALSE when the error goes to the caller
retryAgain(status, i) == ~fatalStatus(status) /\ i + 1 < maxRetries

\* ----------------------------------------------------------- remote store
\* failures the remote store (or the network, status 500 standing for every
\* failure that is not 401/403/404) may answer any request with
ServerFailures == {401, 403, 404, 500}

\* the conditional write: a request carrying sha applies only to that revision,
\* a request without sha only to an absent file
putAccepted(reqSha, curSha) == reqSha = curSha

putRejectStatus(reqSha) == IF reqSha = NullSha THEN 422 ELSE 409

\* the statuses a write attempt may fail with
putFailures(reqSha, curSha) ==
    ServerFailures \cup
        (IF putAccepted(reqSha, curSha) THEN {} ELSE {putRejectStatus(reqSha)})

\* -------------------------------------------------------------------- Init
\* a fresh cache; the repository may already hold entries written elsewhere
Init ==
    /\ localStorage = [entries |-> [d \in Dates |-> NoEntry], pending |-> <<>>, index |-> <<>>]
    /\ _index = <<>>
    /\ syncInProgress = FALSE
    /\ onLine \in BOOLEAN
    /\ remote \in [Dates -> {[content |-> NoMarkdown, sha |-> NullSha],
                             [content |-> 1, sha |-> 1]}]
    /\ tasks = [s \in Slots |-> Idle]
    /\ saves = 0
    /\ confirmed = [d \in Dates |-> [content |-> NoMarkdown, sha |-> NullSha]]
    /\ retry = NotRun /\ call = NotRun /\ page = NotRun /\ journal = NotRun

\* ----------------------------------------------------------------- actions
\* saveCurrentEntry with a valid form for date d and encoded document m
SaveCurrentEntry(d, m) ==
    LET cached == getEntry(localStorage, d)
        ls1 == Storage_saveEntry(localStorage, d, m,
                                 IF cached.exists THEN cached.sha ELSE NullSha, FALSE)
        ls2 == Index_addDate(ls1, _index, d)
    IN  /\ saves < MaxSaves
        /\ saves' = saves + 1
        /\ _index' = addDate(_index, d)
        /\ IF onLine
           THEN /\ freeSlots # {}
                /\ localStorage' = ls2
                /\ tasks' = [tasks EXCEPT ![firstFree] = syncEntryRequest(ls2, "save", d, <<>>, 0)]
           ELSE /\ localStorage' = markPending(ls2, d)
                /\ tasks' = tasks
        /\ UNCHANGED <<syncInProgress, onLine, remote, confirmed>>

\* the guard without its in-flight flag
drainBlocked_NoFlag(on) == ~on

\* syncPendingEntries' first line: the guard that returns without doing anything
drainBlocked(on) == syncInProgress \/ ~on

\* syncPendingEntries, called while navigator.onLine = on
syncPendingEntries(on) ==
    LET pending == localStorage.pending
        p == nextSyncable(localStorage, pending, 1)
    IN  IF drainBlocked(on) \/ pending = <<>> \/ p = 0
        THEN UNCHANGED <<localStorage, _index, syncInProgress, remote, tasks, confirmed, saves>>
        ELSE /\ freeSlots # {}
             /\ syncInProgress' = TRUE
             /\ tasks' = [tasks EXCEPT ![firstFree] =
                            syncEntryRequest(localStorage, "drain", pending[p], pending, p)]
             /\ UNCHANGED <<localStorage, _index, remote, confirmed, saves>>

\* the 30-second timer
CheckPendingSync ==
    /\ IF onLine THEN syncPendingEntries(onLine)
       ELSE UNCHANGED <<localStorage, _index, syncInProgress, remote, tasks, confirmed, saves>>
    /\ UNCHANGED onLine

\* the window's 'online' event
OnlineEvent ==
    /\ ~onLine
    /\ onLine' = TRUE
    /\ syncPendingEntries(TRUE)

OfflineEvent ==
    /\ onLine
    /\ onLine' = FALSE
    /\ UNCHANGED <<localStorage, _index, syncInProgress, remote, tasks, confirmed, saves>>

\* loadEntry up to its await
LoadEntry(d) ==
    /\ IF hasMarkdown(localStorage, d) \/ ~onLine
       THEN tasks' = tasks
       ELSE /\ freeSlots # {}
            /\ tasks' = [tasks EXCEPT ![firstFree] = getRequest(d)]
    /\ UNCHANGED <<localStorage, _index, syncInProgress, onLine, remote, confirmed, saves>>

\* the drain without its try/catch: a failed write leaves the loop and the
\* function before the flag is reset
syncEntryDone_ThrowEscapes(s, ok) ==
    LET t == tasks[s]
        ls1 == IF ok THEN markSynced(localStorage, t.date, t.rsha)
               ELSE markPending(localStorage, t.date)
        p == IF ok THEN nextSyncable(ls1, t.list, t.pos + 1) ELSE 0
    IN  /\ localStorage' = ls1
        /\ confirmed' = IF ok
                        THEN [confirmed EXCEPT ![t.date] = [content |-> t.markdown, sha |-> t.rsha]]
                        ELSE confirmed
        /\ IF t.kind = "drain"
           THEN IF p = 0
                THEN /\ tasks' = [tasks EXCEPT ![s] = Idle]
                     /\ syncInProgress' = (syncInProgress /\ ~ok)
                ELSE /\ tasks' = [tasks EXCEPT ![s] =
                                    syncEntryRequest(ls1, "drain", t.list[p], t.list, p)]
                     /\ syncInProgress' = syncInProgress
           ELSE /\ tasks' = [tasks EXCEPT ![s] = Idle]
                /\ syncInProgress' = syncInProgress
        /\ UNCHANGED <<_index, onLine, remote, saves>>

\* syncEntry after its await (ok: the write returned, else it threw), then the
\* caller's continuation: saveCurrentEntry ends, the drain goes on with its list
syncEntryDone(s, ok) ==
    LET t == tasks[s]
        ls1 == IF ok THEN markSynced(localStorage, t.date, t.rsha)
               ELSE markPending(localStorage, t.date)
        p == nextSyncable(ls1, t.list, t.pos + 1)
    IN  /\ localStorage' = ls1
        /\ confirmed' = IF ok
                        THEN [confirmed EXCEPT ![t.date] = [content |-> t.markdown, sha |-> t.rsha]]
                        ELSE confirmed
        /\ IF t.kind = "drain"
           THEN IF p = 0
                THEN /\ tasks' = [tasks EXCEPT ![s] = Idle]
                     /\ syncInProgress' = FALSE
                ELSE /\ tasks' = [tasks EXCEPT ![s] =
                                    syncEntryRequest(ls1, "drain", t.list[p], t.list, p)]
                     /\ syncInProgress' = syncInProgress
           ELSE /\ tasks' = [tasks EXCEPT ![s] = Idle]
                /\ syncInProgress' = syncInProgress
        /\ UNCHANGED <<_index, onLine, remote, saves>>

\* loadEntry after its await: found when the read returned {content, sha}; not
\* when it returned null or threw
loadEntryDone(s, found) ==
    LET t == tasks[s]
    IN  /\ IF found
           THEN /\ localStorage' = Storage_saveEntry(localStorage, t.date, t.rdoc, t.rsha, TRUE)
                /\ confirmed' = [confirmed EXCEPT ![t.date] = [content |-> t.rdoc, sha |-> t.rsha]]
           ELSE UNCHANGED <<localStorage, confirmed>>
        /\ tasks' = [tasks EXCEPT ![s] = Idle]
        /\ UNCHANGED <<_index, syncInProgress, onLine, remote, saves>>

\* the remote store applies a write and answers 200/201 with the new sha
ServerPut(s) ==
    LET t == tasks[s]
        cur == remote[t.date]
    IN  /\ isPut(t) /\ t.phase = "sent"
        /\ putAccepted(t.sha, cur.sha)
        /\ remote' = [remote EXCEPT ![t.date] = [content |-> t.markdown, sha |-> cur.sha + 1]]
        /\ tasks' = [tasks EXCEPT ![s].phase = "resp", ![s].rsha = cur.sha + 1]
        /\ UNCHANGED <<localStorage, _index, syncInProgress, onLine, confirmed, saves>>

\* the remote store answers a read of an existing file
ServerGet(s) ==
    LET t == tasks[s]
        cur == remote[t.date]
    IN  /\ t.kind = "load" /\ t.phase = "sent"
        /\ cur.sha # NullSha
        /\ tasks' = [tasks EXCEPT ![s].phase = "resp", ![s].rdoc = cur.content,
                                  ![s].rsha = cur.sha]
        /\ UNCHANGED <<localStorage, _index, syncInProgress, onLine, remote, confirmed, saves>>

\* the successful response arrives: putFile / getFile return, withRetry returns
Response(s) ==
    /\ tasks[s].phase = "resp"
    /\ IF isPut(tasks[s]) THEN syncEntryDone(s, TRUE) ELSE loadEntryDone(s, TRUE)

\* a write attempt fails with status st: putFile throws into withRetry's catch,
\* which (after its delay) makes the next attempt or throws to syncEntry
PutFails(s, st) ==
    LET t == tasks[s]
    IN  /\ isPut(t) /\ t.phase = "sent"
        /\ st \in putFailures(t.sha, remote[t.date].sha)
        /\ IF ~putFileThrows(st) THEN syncEntryDone(s, TRUE)
           ELSE IF retryAgain(st, t.i)
           THEN /\ tasks' = [tasks EXCEPT ![s].i = t.i + 1, ![s].lastError = st]
                /\ UNCHANGED <<localStorage, _index, syncInProgress, onLine, remote, confirmed, saves>>
           ELSE syncEntryDone(s, FALSE)

\* a read attempt is answered 404 (getFile returns null) or fails with status st
GetFails(s, st) ==
    LET t == tasks[s]
    IN  /\ t.kind = "load" /\ t.phase = "sent"
        /\ \/ st \in ServerFailures \ {404}
           \/ st = 404 /\ remote[t.date].sha = NullSha
        /\ IF st # 404 /\ retryAgain(st, t.i)
           THEN /\ tasks' = [tasks EXCEPT ![s].i = t.i + 1, ![s].lastError = st]
                /\ UNCHANGED <<localStorage, _index, syncInProgress, onLine, remote, confirmed, saves>>
           ELSE loadEntryDone(s, FALSE)

Next ==
    \/ (\E d \in Dates, m \in Docs : SaveCurrentEntry(d, m)) /\ UNCHANGED auxVars
    \/ CheckPendingSync /\ UNCHANGED auxVars
    \/ OnlineEvent /\ UNCHANGED auxVars
    \/ OfflineEvent /\ UNCHANGED auxVars
    \/ (\E d \in Dates : LoadEntry(d)) /\ UNCHANGED auxVars
    \/ (\E s \in Slots : ServerPut(s)) /\ UNCHANGED auxVars
    \/ (\E s \in Slots : ServerGet(s)) /\ UNCHANGED auxVars
    \/ (\E s \in Slots : Response(s)) /\ UNCHANGED auxVars
    \/ (\E s \in Slots, st \in ServerFailures \cup {409, 422} : PutFails(s, st)) /\ UNCHANGED auxVars
    \/ (\E s \in Slots, st \in ServerFailures : GetFails(s, st)) /\ UNCHANGED auxVars

Spec == Init /\ [][Next]_vars

\* ------------------------------------------------------------ abbreviations
entryOf(d) == localStorage.entries[d]
isPending(d) == entryOf(d).exists /\ ~entryOf(d).synced
isSynced(d) == entryOf(d).exists /\ entryOf(d).synced
inQueue(d) == includes(localStorage.pending, d)
drainTasks == {s \in Slots : tasks[s].kind = "drain"}
writesOf(d) == {s \in Slots : isPut(tasks[s]) /\ tasks[s].date = d}
\* the step ends the request of slot s: the slot is freed, or the drain moved on
endsTask(s) == tasks'[s].kind = "idle" \/ tasks'[s].pos # tasks[s].pos

\* ------------------------------------------------------------------ claims

\* C1: in every reachable state a date is in the pending queue if and only if
\* its cache record exists with synced = false, also while a write is suspended.
C1_QueueMatchesState ==
    \A d \in Dates : inQueue(d) <=> isPending(d)

\* C2: while a drain is running, no invocation of syncPendingEntries starts
\* another one: at most one drain task exists, syncInProgress is set exactly
\* while it exists, and no step taken while it is set creates a drain task.
C2_SingleDrain ==
    /\ [](Cardinality(drainTasks) <= 1 /\ (syncInProgress <=> drainTasks # {}))
    /\ [][syncInProgress => \A s \in Slots :
            tasks'[s].kind = "drain" => tasks[s].kind = "drain"]_vars

\* a drain is suspended on a write while every other condition for starting a
\* drain holds: online, a queued date with a document, a free slot
C2_Witness ==
    /\ syncInProgress /\ onLine
    /\ nextSyncable(localStorage, localStorage.pending, 1) # 0
    /\ freeSlots # {}
    /\ \E s \in drainTasks : tasks[s].phase = "sent"

\* C3: at no time are two remote writes of the same date in flight.
C3_OneWritePerDate ==
    \A d \in Dates : Cardinality(writesOf(d)) <= 1

\* C4: a Synced record holds the document and the token of the most recent
\* successful remote write, or hydrating read, of its date.
C4_SyncedIsConfirmed ==
    \A d \in Dates : isSynced(d) =>
        /\ entryOf(d).markdown = confirmed[d].content
        /\ entryOf(d).sha = confirmed[d].sha

\* C5: every saveCurrentEntry step of date d leaves d's record existing and
\* Pending (synced = false), whatever the record was before.
C5_SaveMakesPending ==
    [][\A d \in Dates, m \in Docs :
        SaveCurrentEntry(d, m) => isPending(d)' /\ entryOf(d)'.markdown = m]_vars

\* a record that was Synced with the confirmed document has just been saved
\* with another document: it is Pending and its write is out
C5_Witness ==
    \E d \in Dates, s \in Slots :
        /\ isPending(d)
        /\ entryOf(d).sha # NullSha /\ entryOf(d).sha = confirmed[d].sha
        /\ entryOf(d).markdown # confirmed[d].content
        /\ tasks[s].kind = "save" /\ tasks[s].date = d /\ tasks[s].i = 0
        /\ tasks[s].phase = "sent" /\ tasks[s].markdown = entryOf(d).markdown

\* C6: when the write issued by syncEntry for d succeeds, d's record is Synced
\* with the returned token and d is not in the pending queue.
C6_SuccessMarksSynced ==
    [][\A s \in Slots, d \in Dates :
        (isPut(tasks[s]) /\ tasks[s].date = d /\ Response(s)) =>
            /\ isSynced(d)'
            /\ entryOf(d)'.sha = tasks[s].rsha
            /\ tasks[s].rsha # NullSha
            /\ ~inQueue(d)']_vars

\* the client wrote document 2 and marked the record Synced with the remote's sha
C6_Witness ==
    \E d \in Dates :
        /\ isSynced(d) /\ ~inQueue(d)
        /\ entryOf(d).markdown = 2 /\ remote[d].content = 2
        /\ entryOf(d).sha = remote[d].sha

\* C7: when the write issued by syncEntry for d fails for good, d's record still
\* exists with the same document, is Pending, and d is in the pending queue.
C7_FailureKeepsPending ==
    [][\A s \in Slots, d \in Dates, st \in ServerFailures \cup {409, 422} :
        (tasks[s].date = d /\ PutFails(s, st) /\ ~retryAgain(st, tasks[s].i)) =>
            /\ isPending(d)'
            /\ entryOf(d)'.markdown = entryOf(d).markdown
            /\ entryOf(d).markdown # NoMarkdown
            /\ inQueue(d)']_vars

\* after the only save so far, the client is online with no request out and
\* the date still queued: its write has failed
C7_Witness ==
    /\ saves = 1 /\ onLine
    /\ \A s \in Slots : tasks[s] = Idle
    /\ \E d \in Dates : isPending(d) /\ inQueue(d) /\ entryOf(d).markdown # NoMarkdown

C9_StaleWriteFails ==
    [][\A s \in Slots, d \in Dates :
        (/\ isPut(tasks[s]) /\ tasks[s].phase = "sent" /\ tasks[s].date = d
         /\ tasks[s].sha # remote[d].sha) =>
            /\ tasks'[s].phase # "resp"
            /\ remote'[d] = remote[d] \/ \E t \in Slots \ {s} : tasks'[t].phase = "resp"
            /\ endsTask(s) => (~isSynced(d)' /\ inQueue(d)')]_vars

\* a write with a stale token has been rejected and the remote file is not its document
C9_Witness ==
    \E s \in Slots :
        /\ isPut(tasks[s]) /\ tasks[s].lastError \in {409, 422}
        /\ tasks[s].sha # remote[tasks[s].date].sha
        /\ remote[tasks[s].date].content # tasks[s].markdown

\* C10: a write that failed with a Conflict (409) is not attempted again.
C10_ConflictNotRetried ==
    \A s \in Slots :
        ~(isPut(tasks[s]) /\ tasks[s].phase = "sent" /\ tasks[s].lastError = 409)

\* ------------------------------------------- github client: withRetry alone
\* what one attempt of the wrapped request may end with: 200 is a success, any
\* other status is the error the request throws
AttemptOutcomes == {200, 401, 403, 404, 409, 500}

attemptOk(status) == status = 200

\* for (let i = 0; i < maxRetries; i++)
loopContinues_OneMore(i) == i <= maxRetries
loopContinues(i) == i < maxRetries

\* Math.pow(2, i) * 1000
backoffDelay(i) == (2 ^ i) * 1000

\* the outcome of the k-th call of fn
outcomeAt(r, k) == IF k \in DOMAIN r.outcomes THEN r.outcomes[k] ELSE 500

\* a run of withRetry(fn) that has entered the loop and not called fn yet
RetryStart(outcomes) ==
    [outcomes |-> outcomes, i |-> 0, phase |-> "call", attempts |-> 0,
     waits |-> <<>>, lastError |-> 0, result |-> 0]

\* the app at rest: nothing in flight, nothing saved yet, an empty repository
appAtRest ==
    /\ syncInProgress = FALSE
    /\ onLine = TRUE
    /\ remote = [d \in Dates |-> [content |-> NoMarkdown, sha |-> NullSha]]
    /\ tasks = [s \in Slots |-> Idle]
    /\ saves = 0
    /\ confirmed = [d \in Dates |-> [content |-> NoMarkdown, sha |-> NullSha]]

emptyCache ==
    /\ localStorage = [entries |-> [d \in Dates |-> NoEntry], pending |-> <<>>, index |-> <<>>]
    /\ _index = <<>>

InitRetry ==
    /\ appAtRest
    /\ emptyCache
    /\ retry \in {RetryStart(o) : o \in [1..maxRetries -> AttemptOutcomes]}
    /\ call = NotRun /\ page = NotRun /\ journal = NotRun

\* try { return await fn(); } catch (error) { lastError = error; if fatal throw error; }
RetryCall ==
    LET st == outcomeAt(retry, retry.attempts + 1)
    IN  /\ retry.phase = "call"
        /\ retry' =
             IF attemptOk(st)
             THEN [retry EXCEPT !.attempts = @ + 1, !.phase = "returned", !.result = st]
             ELSE IF fatalStatus(st)
             THEN [retry EXCEPT !.attempts = @ + 1, !.lastError = st,
                                !.phase = "thrown", !.result = st]
             ELSE [retry EXCEPT !.attempts = @ + 1, !.lastError = st, !.phase = "delay"]
        /\ UNCHANGED <<syncVars, call, page, journal>>

\* await new Promise(resolve => setTimeout(resolve, delay)); i++; the loop test;
\* after the loop: throw lastError
RetryDelay ==
    /\ retry.phase = "delay"
    /\ retry' =
         IF loopContinues(retry.i + 1)
         THEN [retry EXCEPT !.waits = Append(@, backoffDelay(retry.i)), !.i = @ + 1,
                            !.phase = "call"]
         ELSE [retry EXCEPT !.waits = Append(@, backoffDelay(retry.i)), !.i = @ + 1,
                            !.phase = "thrown", !.result = retry.lastError]
    /\ UNCHANGED <<syncVars, call, page, journal>>

NextRetry ==
    \/ RetryCall
    \/ RetryDelay

SpecRetry == InitRetry /\ [][NextRetry]_vars

retryEnded == retry.phase \in {"returned", "thrown"}

\* C11: an attempt that fails with status 401, 403 or 404 is the last one: the
\* run has ended by throwing that very error, no attempt follows it, and no
\* backoff wait was made after it (so a first attempt failing this way ends the
\* run after exactly one attempt and no wait at all)
C11_FatalStopsAtOnce ==
    \A k \in 1..retry.attempts :
        outcomeAt(retry, k) \in {401, 403, 404} =>
            /\ retry.attempts = k
            /\ retry.phase = "thrown"
            /\ retry.result = outcomeAt(retry, k)
            /\ Len(retry.waits) = k - 1

C11_Witness ==
    /\ retry.phase = "thrown"
    /\ retry.attempts = 1
    /\ retry.result = 404
    /\ retry.waits = <<>>

\* C12: a run makes at most maxRetries attempts; an attempt is made only after
\* failures, so the first success is returned and nothing is attempted after
\* it; a run whose maxRetries attempts all failed throws the error of the last
\* one; and a run that has not ended can always take a step
C12_BoundedAttempts ==
    /\ retry.attempts <= maxRetries
    /\ \A k \in 1..(retry.attempts - 1) : ~attemptOk(outcomeAt(retry, k))
    /\ retry.phase = "returned" =>
          attemptOk(outcomeAt(retry, retry.attempts)) /\ retry.result = 200
    /\ (retry.attempts >= 1 /\ attemptOk(outcomeAt(retry, retry.attempts))) =>
          retry.phase = "returned"
    /\ (retry.phase = "thrown" /\ retry.attempts = maxRetries) =>
          retry.result = outcomeAt(retry, maxRetries)
    /\ ~retryEnded => ENABLED NextRetry

C12_Witness ==
    /\ retry.phase = "thrown"
    /\ retry.attempts = maxRetries
    /\ retry.outcomes = <<500, 500, 409>>
    /\ retry.result = 409


\* ------------------------------------------------ storage.js: the cache alone
\* the dates of the stored records, most recent first:
\* Object.keys(entries).sort().reverse()
RECURSIVE descending(_)
descending(S) ==
    IF S = {} THEN <<>>
    ELSE LET top == CHOOSE x \in S : \A y \in S : y <= x
         IN  <<top>> \o descending(S \ {top})

\* the dates of the stored records without the reverse(): oldest first
storedDates_Ascending(ls) ==
    LET dates == descending({d \in DOMAIN ls.entries : ls.entries[d].exists})
    IN  [k \in 1..Len(dates) |-> dates[Len(dates) + 1 - k]]

storedDates(ls) == descending({d \in DOMAIN ls.entries : ls.entries[d].exists})

\* Array.prototype.slice(start): from index start (counted from the end when
\* negative) to the end
slice(seq, start) ==
    LET n == Len(seq)
        from == IF start < 0 THEN (IF n + start < 0 THEN 0 ELSE n + start)
                ELSE (IF start > n THEN n ELSE start)
    IN  SubSeq(seq, from + 1, n)

\* pruneCache without the test of the synced flag
pruneCache_AnyState(ls, keep) ==
    LET dates == storedDates(ls)
        toRemove == slice(dates, keep)
    IN  IF Len(dates) <= keep THEN ls
        ELSE [ls EXCEPT !.entries =
                 [d \in DOMAIN @ |-> IF includes(toRemove, d) THEN NoEntry ELSE @[d]]]

pruneCache(ls, keep) ==
    LET dates == storedDates(ls)
        toRemove == slice(dates, keep)
    IN  IF Len(dates) <= keep THEN ls
        ELSE [ls EXCEPT !.entries =
                 [d \in DOMAIN @ |->
                     IF includes(toRemove, d) /\ @[d].synced THEN NoEntry ELSE @[d]]]

\* the records a cache may hold for a date
StoreRecords ==
    {NoEntry} \cup
    [exists : {TRUE}, markdown : Docs, sha : {NullSha, 1}, synced : BOOLEAN]

\* the pending queue never holds a date twice (addPending)
QueueOrders(S) ==
    {q \in UNION {[1..n -> S] : n \in 0..Cardinality(S)} :
        \A j, k \in 1..Len(q) : q[j] = q[k] => j = k}

\* the caches saves, syncs, loads and imports can leave behind
StoreStates ==
    {[entries |-> e, pending |-> q, index |-> descending({d \in Dates : e[d].exists})] :
        e \in [Dates -> StoreRecords], q \in QueueOrders(Dates)}

NoCall == [op |-> "none", arg |-> 0, before |-> 0, ret |-> 0]

\* the retention counts pruneCache is called with
KeepCounts == 0..MaxDate

InitStore ==
    /\ appAtRest
    /\ localStorage \in StoreStates
    /\ _index = localStorage.index
    /\ call = NoCall
    /\ retry = NotRun /\ page = NotRun /\ journal = NotRun

PruneCache(keep) ==
    /\ localStorage' = pruneCache(localStorage, keep)
    /\ call' = [op |-> "pruneCache", arg |-> keep, before |-> localStorage, ret |-> 0]
    /\ UNCHANGED <<_index, syncInProgress, onLine, remote, tasks, confirmed, saves,
                   retry, page, journal>>

NextStore ==
    \/ \E keep \in KeepCounts : PruneCache(keep)

SpecStore == InitStore /\ [][NextStore]_vars

pendingIn(ls, d) == ls.entries[d].exists /\ ~ls.entries[d].synced
syncedIn(ls, d) == ls.entries[d].exists /\ ls.entries[d].synced

\* C14: after pruneCache, every record that was Pending before the call is
\* still in the cache with the same document, token and state, whatever the
\* retention count and the cache content
C14_PruneKeepsPending ==
    call.op = "pruneCache" =>
        \A d \in Dates :
            pendingIn(call.before, d) => localStorage.entries[d] = call.before.entries[d]

\* a Pending record outside the retained dates survives a prune that
\* deletes a Synced one
C14_Witness ==
    /\ call.op = "pruneCache"
    /\ call.arg = 0
    /\ \E d, e \in Dates :
          /\ pendingIn(call.before, d)
          /\ syncedIn(call.before, e)
          /\ localStorage.entries[d] = call.before.entries[d]
          /\ ~localStorage.entries[e].exists


\* ------------------------------------------- analytics.js: importFromJSON
\* a key of the file's "entries" object, as the text year-month-day written with
\* digits[1], digits[2] and digits[3] digits:
\* "2025-01-15", "2025-13-40" and "2026-1-5"
ImportKeys ==
    {[year |-> 2025, month |-> 1, day |-> 15, digits |-> <<4, 2, 2>>],
     [year |-> 2025, month |-> 13, day |-> 40, digits |-> <<4, 2, 2>>],
     [year |-> 2026, month |-> 1, day |-> 5, digits |-> <<4, 1, 1>>]}

\* /^\d{4}-\d{2}-\d{2}$/.test(date)
matchesDatePattern(key) == key.digits = <<4, 2, 2>>

\* the cache's key for an import key; its order is the order of the key texts
dateCode(key) == key.year * 10000 + key.month * 100 + key.day

CacheKeys == {dateCode(key) : key \in ImportKeys}

\* how many entries one import file holds at most
MaxFile == 2

\* the entries of an import file in the order Object.entries gives them; an
\* object holds a key once
ImportEntries == [key : ImportKeys, markdown : Docs, sha : {NullSha, 1}]

ImportFiles ==
    {f \in UNION {[1..n -> ImportEntries] : n \in 1..MaxFile} :
        \A j, k \in 1..Len(f) : f[j].key = f[k].key => j = k}

\* one turn of the loop that saves the entry whatever the state of the local record
importEntry_Overwrite(st, e) ==
    IF ~matchesDatePattern(e.key)
    THEN [st EXCEPT !.skipped = @ + 1]
    ELSE LET date == dateCode(e.key)
             ls1 == Storage_saveEntry(st.ls, date, e.markdown, e.sha, FALSE)
         IN  [ls |-> Index_addDate(ls1, st.idx, date),
              idx |-> addDate(st.idx, date),
              imported |-> st.imported + 1,
              skipped |-> st.skipped]

\* one turn of the loop of importFromJSON
importEntry(st, e) ==
    IF ~matchesDatePattern(e.key)
    THEN [st EXCEPT !.skipped = @ + 1]
    ELSE LET date == dateCode(e.key)
             existing == getEntry(st.ls, date)
         IN  IF existing.exists /\ existing.synced
             THEN [st EXCEPT !.skipped = @ + 1]
             ELSE LET ls1 == Storage_saveEntry(st.ls, date, e.markdown, e.sha, FALSE)
                  IN  [ls |-> Index_addDate(ls1, st.idx, date),
                       idx |-> addDate(st.idx, date),
                       imported |-> st.imported + 1,
                       skipped |-> st.skipped]

RECURSIVE importEntries(_, _, _)
importEntries(st, file, k) ==
    IF k > Len(file) THEN st
    ELSE importEntries(importEntry(st, file[k]), file, k + 1)

importFromJSON(ls, idx, file) ==
    importEntries([ls |-> ls, idx |-> idx, imported |-> 0, skipped |-> 0], file, 1)

\* the records the cache holds before an import
ImportedOver ==
    {NoEntry} \cup
    [exists : {TRUE}, markdown : {1}, sha : {NullSha, 1}, synced : BOOLEAN]

InitImport ==
    /\ appAtRest
    /\ localStorage \in
          {[entries |-> e, pending |-> q,
            index |-> descending({d \in CacheKeys : e[d].exists})] :
              e \in [CacheKeys -> ImportedOver], q \in QueueOrders(CacheKeys)}
    /\ _index = localStorage.index
    /\ call = NoCall
    /\ retry = NotRun /\ page = NotRun /\ journal = NotRun

\* one import per run: every cache content is an initial state
ImportFromJSON(file) ==
    LET out == importFromJSON(localStorage, _index, file)
    IN  /\ call = NoCall
        /\ localStorage' = out.ls
        /\ _index' = out.idx
        /\ call' = [op |-> "importFromJSON", arg |-> file, before |-> localStorage,
                    ret |-> [imported |-> out.imported, skipped |-> out.skipped]]
        /\ UNCHANGED <<syncInProgress, onLine, remote, tasks, confirmed, saves,
                       retry, page, journal>>

NextImport ==
    \/ \E file \in ImportFiles : ImportFromJSON(file)

SpecImport == InitImport /\ [][NextImport]_vars

\* the entries of the imported file that the import has to skip: their key has
\* not the shape of a date, or the local record of the date is Synced
skippedEntries(file, before) ==
    {k \in 1..Len(file) :
        \/ ~matchesDatePattern(file[k].key)
        \/ syncedIn(before, dateCode(file[k].key))}

\* C15: after an import, every date of the file whose local record was Synced
\* has its record unchanged (document, token, state), and the returned skipped
\* count is the number of entries with such a date or a malformed key
C15_ImportKeepsSynced ==
    call.op = "importFromJSON" =>
        /\ \A k \in 1..Len(call.arg) :
              LET date == dateCode(call.arg[k].key)
              IN  (matchesDatePattern(call.arg[k].key) /\ syncedIn(call.before, date)) =>
                      localStorage.entries[date] = call.before.entries[date]
        /\ call.ret.skipped = Cardinality(skippedEntries(call.arg, call.before))
        /\ call.ret.imported + call.ret.skipped = Len(call.arg)

\* the file held another document for a date that is Synced locally
C15_Witness ==
    /\ call.op = "importFromJSON"
    /\ \E k \in 1..Len(call.arg) :
          LET date == dateCode(call.arg[k].key)
          IN  /\ matchesDatePattern(call.arg[k].key)
              /\ syncedIn(call.before, date)
              /\ call.arg[k].markdown # call.before.entries[date].markdown
              /\ localStorage.entries[date] = call.before.entries[date]
    /\ call.ret.skipped >= 1

\* a key names a day of the calendar
daysInMonth(year, month) ==
    IF month \in {4, 6, 9, 11} THEN 30
    ELSE IF month # 2 THEN 31
    ELSE IF year % 4 = 0 /\ (year % 100 # 0 \/ year % 400 = 0) THEN 29
    ELSE 28

realDate(key) ==
    /\ matchesDatePattern(key)
    /\ key.month \in 1..12
    /\ key.day \in 1..daysInMonth(key.year, key.month)

\* C16: after an import, every key of the file that is not a date of the
\* calendar was skipped: the skipped count is at least the number of such keys,
\* and the key's cache record, its place in the index (persisted and in memory)
\* and its place in the pending queue are as before
C16_ImportSkipsNonDates ==
    call.op = "importFromJSON" =>
        /\ call.ret.skipped >=
              Cardinality({k \in 1..Len(call.arg) : ~realDate(call.arg[k].key)})
        /\ \A k \in 1..Len(call.arg) :
              LET date == dateCode(call.arg[k].key)
              IN  ~realDate(call.arg[k].key) =>
                      /\ localStorage.entries[date] = call.before.entries[date]
                      /\ includes(localStorage.index, date) = includes(call.before.index, date)
                      /\ includes(_index, date) = includes(call.before.index, date)
                      /\ includes(localStorage.pending, date) =
                            includes(call.before.pending, date)


\* ------------------------------------------- index.js: paging and search
PAGE_SIZE == 50

\* how many full pages the largest listing fills
MaxPages == 2

MaxIndexDate == MaxPages * PAGE_SIZE + 1
IndexDates == 1..MaxIndexDate

\* texts are sequences of characters; the key of date d is its three digits
DigitChars == <<"0", "1", "2", "3", "4", "5", "6", "7", "8", "9">>
dateText(d) ==
    <<DigitChars[(d \div 100) + 1], DigitChars[((d \div 10) % 10) + 1], DigitChars[(d % 10) + 1]>>

\* the text of the cached sample documents
docText(m) == IF m = 1 THEN <<"A", "b">> ELSE <<"b", "5">>

\* String.prototype.toLowerCase
lowerChar(c) == IF c = "A" THEN "a" ELSE IF c = "B" THEN "b" ELSE c
toLowerCase(text) == [k \in 1..Len(text) |-> lowerChar(text[k])]

\* String.prototype.trim
RECURSIVE trimStart(_)
trimStart(text) ==
    IF text # <<>> /\ Head(text) = " " THEN trimStart(Tail(text)) ELSE text

RECURSIVE trimEnd(_)
trimEnd(text) ==
    IF text # <<>> /\ text[Len(text)] = " "
    THEN trimEnd(SubSeq(text, 1, Len(text) - 1)) ELSE text

trim(text) == trimEnd(trimStart(text))

\* String.prototype.includes
textIncludes(text, q) ==
    \E k \in 0..(Len(text) - Len(q)) : SubSeq(text, k + 1, k + Len(q)) = q

\* what the search box may hold
Queries == {<<>>, <<"5">>, <<" ", "A", " ">>, <<"1", "0">>, <<"z">>}

\* getFilteredDates that looks at the date strings only
getFilteredDates_DateOnly(idx, query, ls) ==
    IF query = <<>> THEN idx
    ELSE SelectSeq(idx, LAMBDA date : textIncludes(dateText(date), query))

\* getFilteredDates
getFilteredDates(idx, query, ls) ==
    IF query = <<>> THEN idx
    ELSE SelectSeq(idx,
            LAMBDA date :
                \/ textIncludes(dateText(date), query)
                \/ /\ hasMarkdown(ls, date)
                   /\ textIncludes(toLowerCase(docText(getEntry(ls, date).markdown)), query))

Min(a, b) == IF a < b THEN a ELSE b
Max(a, b) == IF a > b THEN a ELSE b

\* getPage's two assignments of _currentPage without the upper one
clampPage_NoUpper(current, totalPages) == Max(1, current)

\* _currentPage = Math.min(_currentPage, totalPages); _currentPage = Math.max(1, _currentPage)
clampPage(current, totalPages) == Max(1, Min(current, totalPages))

\* the number of pages without the ceiling: full pages only
totalPagesOf_Floor(filtered) == Max(1, Len(filtered) \div PAGE_SIZE)

\* Math.max(1, Math.ceil(filtered.length / PAGE_SIZE))
totalPagesOf(filtered) == Max(1, (Len(filtered) + PAGE_SIZE - 1) \div PAGE_SIZE)

\* getPage: the value it returns; current is _currentPage after the clamp
getPage(idx, query, ls, current) ==
    LET filtered == getFilteredDates(idx, query, ls)
        totalPages == totalPagesOf(filtered)
        cur == clampPage(current, totalPages)
        start == (cur - 1) * PAGE_SIZE
    IN  [dates |-> SubSeq(filtered, start + 1, Min(start + PAGE_SIZE, Len(filtered))),
         page |-> cur,
         totalPages |-> totalPages,
         hasNext |-> cur < totalPages,
         hasPrev |-> cur > 1,
         totalCount |-> Len(filtered)]

NoPage == [dates |-> <<>>, page |-> 0, totalPages |-> 0, hasNext |-> FALSE,
           hasPrev |-> FALSE, totalCount |-> 0]

\* the listings refreshIndex hands to setDates: the dates 1..n, for a number n
\* at and next to the page boundaries
ListingSizes ==
    UNION {{k * PAGE_SIZE, k * PAGE_SIZE + 1} : k \in 0..MaxPages}

listing(n) == [k \in 1..n |-> k]

\* the dates added and removed one at a time
EditedDates == {1, PAGE_SIZE + 1, MaxIndexDate}

\* the arguments of goToPage
PageNumbers == (0 - 1)..(MaxPages + 2)

\* Index.init() over a cache that holds documents for a few dates
InitIndex ==
    /\ appAtRest
    /\ \E cached \in SUBSET {1, PAGE_SIZE + 1} :
          localStorage =
              [entries |-> [d \in IndexDates |->
                               IF d \in cached
                               THEN [exists |-> TRUE, markdown |-> 1, sha |-> 1, synced |-> TRUE]
                               ELSE NoEntry],
               pending |-> <<>>,
               index |-> <<>>]
    /\ _index = localStorage.index
    /\ page = [currentPage |-> 1, searchQuery |-> <<>>, asked |-> 0, out |-> NoPage]
    /\ call = NoCall
    /\ retry = NotRun /\ journal = NotRun

indexFrame == UNCHANGED <<syncInProgress, onLine, remote, tasks, confirmed, saves, retry, journal>>

\* page and call hold what the last operation returned and nothing older
noResult(pg) == [pg EXCEPT !.asked = 0, !.out = NoPage]

\* setDates
SetDates(n) ==
    /\ _index' = sortReverse(listing(n))
    /\ localStorage' = setIndex(localStorage, _index')
    /\ page' = noResult(page)
    /\ call' = NoCall
    /\ indexFrame

\* addDate
AddDate(d) ==
    /\ _index' = addDate(_index, d)
    /\ localStorage' = Index_addDate(localStorage, _index, d)
    /\ page' = noResult(page)
    /\ call' = [op |-> "addDate", arg |-> d, before |-> _index, ret |-> 0]
    /\ indexFrame

\* removeDate
RemoveDate(d) ==
    /\ _index' = filterOut(_index, d)
    /\ localStorage' = setIndex(localStorage, _index')
    /\ page' = noResult(page)
    /\ call' = NoCall
    /\ indexFrame

\* setSearchQuery
SetSearchQuery(query) ==
    /\ page' = noResult([page EXCEPT !.searchQuery = trim(toLowerCase(query)),
                                     !.currentPage = 1])
    /\ call' = NoCall
    /\ UNCHANGED <<localStorage, _index>>
    /\ indexFrame

\* getPage: clamps _currentPage and returns the page
GetPage ==
    LET out == getPage(_index, page.searchQuery, localStorage, page.currentPage)
    IN  /\ page' = [page EXCEPT !.currentPage = out.page, !.asked = page.currentPage,
                                !.out = out]
        /\ call' = NoCall
        /\ UNCHANGED <<localStorage, _index>>
        /\ indexFrame

\* nextPage: const { hasNext } = getPage(); if (hasNext) _currentPage++
NextPage ==
    LET out == getPage(_index, page.searchQuery, localStorage, page.currentPage)
    IN  /\ page' = noResult([page EXCEPT !.currentPage =
                                IF out.hasNext THEN out.page + 1 ELSE out.page])
        /\ call' = NoCall
        /\ UNCHANGED <<localStorage, _index>>
        /\ indexFrame

\* prevPage
PrevPage ==
    /\ page' = noResult([page EXCEPT !.currentPage = IF @ > 1 THEN @ - 1 ELSE @])
    /\ call' = NoCall
    /\ UNCHANGED <<localStorage, _index>>
    /\ indexFrame

\* goToPage
GoToPage(p) ==
    /\ page' = noResult([page EXCEPT !.currentPage = Max(1, p)])
    /\ call' = NoCall
    /\ UNCHANGED <<localStorage, _index>>
    /\ indexFrame

NextIndex ==
    \/ \E n \in ListingSizes : SetDates(n)
    \/ \E d \in EditedDates : AddDate(d)
    \/ \E d \in EditedDates : RemoveDate(d)
    \/ \E query \in Queries : SetSearchQuery(query)
    \/ GetPage
    \/ NextPage
    \/ PrevPage
    \/ \E p \in PageNumbers : GoToPage(p)

SpecIndex == InitIndex /\ [][NextIndex]_vars

\* the least number of pages, at least one, that hold n dates
pagesFor(n) ==
    CHOOSE t \in 1..(n + 1) :
        /\ t * PAGE_SIZE >= n
        /\ t = 1 \/ (t - 1) * PAGE_SIZE < n

\* C17: whatever index operations came before, every call of getPage returns a
\* page number between 1 and totalPages, and totalPages is the number of pages
\* of the date set as filtered at the time of the call
C17_PageInRange ==
    [][GetPage =>
        LET filtered == getFilteredDates(_index, page.searchQuery, localStorage)
        IN  /\ page'.out.totalPages = pagesFor(Len(filtered))
            /\ page'.out.page >= 1
            /\ page'.out.page <= pagesFor(Len(filtered))]_vars

\* getPage was called on the third page after the date set shrank to one page
C17_Witness ==
    /\ page.asked = 3
    /\ page.out.page = 1
    /\ page.out.totalPages = 1
    /\ page.out.totalCount >= 1

occurrences(seq, d) == Cardinality({k \in 1..Len(seq) : seq[k] = d})

\* C18: in every index state and for every date d, adding d twice gives the
\* index that adding d once gives, and d occurs in it exactly once; the same
\* for the cache store's updateIndex
C18_AddIdempotent ==
    \A d \in EditedDates :
        /\ addDate(addDate(_index, d), d) = addDate(_index, d)
        /\ occurrences(addDate(_index, d), d) = 1
        /\ updateIndex(updateIndex(localStorage, d), d) = updateIndex(localStorage, d)
        /\ occurrences(updateIndex(localStorage, d).index, d) = 1

\* add(d) was called for a date that add(d) had put in the index, and left the
\* index as it was, with d in it once
C18_Witness ==
    /\ call.op = "addDate"
    /\ includes(call.before, call.arg)
    /\ _index = call.before
    /\ occurrences(_index, call.arg) = 1
    /\ Len(_index) >= 2


\* ---------------------------------------------------- journal: validateEntry
\* the values a field of an entry object may hold
Undefined == [type |-> "undefined", v |-> 0]
Null == [type |-> "null", v |-> 0]
NaN == [type |-> "NaN", v |-> 0]
Num(n) == [type |-> "number", v |-> n]
Str(t) == [type |-> "string", v |-> t]
Bool(b) == [type |-> "boolean", v |-> b]

\* the numbers whose decimal text is read back
NumberRange == (0 - 1)..11

\* the strings that Number() reads as a number, and the number it reads
NumericStrings == {""} \cup {ToString(n) : n \in NumberRange}
stringToNumber(t) == IF t = "" THEN 0 ELSE CHOOSE n \in NumberRange : ToString(n) = t

\* Number(x): null and "" become 0, true becomes 1, false 0, other text NaN
Number(x) ==
    IF x.type = "number" THEN x
    ELSE IF x.type = "null" THEN Num(0)
    ELSE IF x.type = "boolean" THEN Num(IF x.v THEN 1 ELSE 0)
    ELSE IF x.type = "string" /\ x.v \in NumericStrings THEN Num(stringToNumber(x.v))
    ELSE NaN

isNaN(x) == x.type = "NaN"

\* isNaN(val) || val < 0 || val > 10
badScore(x) ==
    LET val == Number(x) IN isNaN(val) \/ val.v < 0 \/ val.v > 10

scoreFields == <<"score", "discipline", "focus", "energy", "mood">>

\* validateEntry; entry.date is a key as in ImportKeys, or NoDate when the
\* field is missing or empty
NoDate == [year |-> 0, month |-> 0, day |-> 0, digits |-> <<0, 0, 0>>]

validateEntry(entry) ==
    IF entry = Null
    THEN [valid |-> FALSE,
          errors |-> <<[field |-> "entry", message |-> "Entry is null or undefined"]>>]
    ELSE LET dateErrors ==
                 IF entry.date = NoDate \/ ~matchesDatePattern(entry.date)
                 THEN <<[field |-> "date",
                         message |-> "Invalid date format. Expected YYYY-MM-DD"]>>
                 ELSE <<>>
             failing == SelectSeq(scoreFields,
                            LAMBDA f : entry[f] # Undefined /\ badScore(entry[f]))
             scoreErrors ==
                 [k \in 1..Len(failing) |->
                     [field |-> failing[k], message |-> "must be a number between 0 and 10"]]
             deltaErrors ==
                 IF entry.net_worth_delta # Undefined /\ isNaN(Number(entry.net_worth_delta))
                 THEN <<[field |-> "net_worth_delta",
                         message |-> "net_worth_delta must be a number"]>>
                 ELSE <<>>
             errors == dateErrors \o scoreErrors \o deltaErrors
         IN  [valid |-> Len(errors) = 0, errors |-> errors]

\* the values tried in a score field
ScoreValues ==
    {Undefined, Null, NaN, Bool(TRUE)}
        \cup {Num(n) : n \in {0 - 1, 0, 5, 10, 11}}
        \cup {Str(t) : t \in {"", "7", "11", "abc"}}

\* how many of the five score fields hold something else than the default 5
MaxEdited == 2

\* the entries handed to validateEntry: null, or an entry with a date, a net
\* worth delta and five scores of which up to MaxEdited are not the default
ValidatedEntries ==
    {Null} \cup
    {[date |-> date, net_worth_delta |-> delta,
      score |-> sc["score"], discipline |-> sc["discipline"], focus |-> sc["focus"],
      energy |-> sc["energy"], mood |-> sc["mood"]] :
        date \in ImportKeys \cup {NoDate},
        delta \in {Undefined, Num(0), Str("abc")},
        sc \in {sc \in [{"score", "discipline", "focus", "energy", "mood"} -> ScoreValues] :
                   Cardinality({f \in DOMAIN sc : sc[f] # Num(5)}) <= MaxEdited}}

InitValidate ==
    /\ appAtRest
    /\ emptyCache
    /\ journal \in {[op |-> "none", entry |-> e, out |-> 0] : e \in ValidatedEntries}
    /\ retry = NotRun /\ call = NotRun /\ page = NotRun

ValidateEntry ==
    /\ journal.op = "none"
    /\ journal' = [journal EXCEPT !.op = "validateEntry", !.out = validateEntry(journal.entry)]
    /\ UNCHANGED <<syncVars, retry, call, page>>

NextValidate ==
    \/ ValidateEntry

SpecValidate == InitValidate /\ [][NextValidate]_vars

\* a value is numeric: a number, or text that reads as one
numeric(x) ==
    \/ x.type = "number"
    \/ x.type = "string" /\ x.v \in NumericStrings \ {""}

withinBounds(x) == Number(x).type = "number" /\ Number(x).v \in 0..10

scoresOf(entry) == {entry[scoreFields[k]] : k \in 1..Len(scoreFields)}

CURRENT_SCHEMA == 1

\* a document is the sequence of its lines (joined and split at "\n"); a line is
\*   fence  '---'
\*   meta   'name: value'
\*   blank  ''
\*   text   a line that matches neither heading pattern
\*   main   '# n. name', a line that matches /^#\s+(\d+)\./
\*   sub    '## name ...', a line that matches /^##\s+(Health|Skill|Money|Leverage|Mind)/i
Line(kind, n, name, value) == [kind |-> kind, n |-> n, name |-> name, value |-> value]
Fence == Line("fence", 0, "", "")
Meta(name, value) == Line("meta", 0, name, value)
Blank == Line("blank", 0, "", "")
Text(t) == Line("text", 0, t, "")
Main(n, title) == Line("main", n, title, "")
Sub(name) == Line("sub", 0, name, "")

\* the empty string, as lines
EmptyText == <<Blank>>

\* `${x}`
templateText(x) ==
    IF x.type = "number" THEN ToString(x.v)
    ELSE IF x.type = "string" THEN x.v
    ELSE IF x.type = "boolean" THEN (IF x.v THEN "true" ELSE "false")
    ELSE IF x.type = "null" THEN "null"
    ELSE IF x.type = "NaN" THEN "NaN"
    ELSE "undefined"

\* entry[key]
field(entry, key) == IF key \in DOMAIN entry THEN entry[key] ELSE Undefined

\* x || other, for a field that holds a number or a string
falsy(x) ==
    \/ x.type \in {"undefined", "null", "NaN"}
    \/ x.type = "number" /\ x.v = 0
    \/ x.type = "string" /\ x.v = ""
    \/ x.type = "boolean" /\ ~x.v

orElse(x, other) == IF falsy(x) THEN other ELSE x

\* entry.section_N || ''
sectionText(entry, key) == IF key \in DOMAIN entry THEN entry[key] ELSE EmptyText

\* the text written above its heading
sectionLines_TextFirst(entry, heading, key) ==
    sectionText(entry, key) \o <<heading>> \o <<Blank>>

\* lines.push(heading); lines.push(entry.section_N || ''); lines.push('')
sectionLines(entry, heading, key) == <<heading>> \o sectionText(entry, key) \o <<Blank>>

toMarkdown(entry) ==
    <<Fence,
      Meta("schema", templateText(orElse(field(entry, "schema"), Num(CURRENT_SCHEMA)))),
      Meta("date", templateText(field(entry, "date"))),
      Meta("score", templateText(field(entry, "score"))),
      Meta("discipline", templateText(field(entry, "discipline"))),
      Meta("focus", templateText(field(entry, "focus"))),
      Meta("energy", templateText(field(entry, "energy"))),
      Meta("mood", templateText(field(entry, "mood"))),
      Meta("net_worth_delta", templateText(field(entry, "net_worth_delta"))),
      Fence,
      Blank>>
    \o sectionLines(entry, Main(1, "Identity & North Star"), "section_1")
    \o sectionLines(entry, Main(2, "Top 1-3 Priorities"), "section_2")
    \o sectionLines(entry, Main(3, "Time & Focus Plan"), "section_3")
    \o <<Main(4, "Execution Checklist"), Blank>>
    \o sectionLines(entry, Sub("Health"), "section_4a")
    \o sectionLines(entry, Sub("Skill"), "section_4b")
    \o sectionLines(entry, Sub("Money"), "section_4c")
    \o sectionLines(entry, Sub("Leverage"), "section_4d")
    \o sectionLines(entry, Sub("Mind"), "section_4e")
    \o sectionLines(entry, Main(5, "Personal Balance Sheet"), "section_5")
    \o sectionLines(entry, Main(6, "Decisions & Thinking Log"), "section_6")
    \o sectionLines(entry, Main(7, "Failure & Weakness Audit"), "section_7")
    \o sectionLines(entry, Main(8, "Fix & Upgrade Plan"), "section_8")
    \o sectionLines(entry, Main(9, "Wins & Progress"), "section_9")
    \o sectionLines(entry, Main(10, "Self-Score (0-10)"), "section_10")
    \o <<Main(11, "Night Close Reflection")>> \o sectionText(entry, "section_11")

\* the closing '---' of /^---\r?\n([\s\S]*?)\r?\n---\r?\n([\s\S]*)$/: the first
\* '---' line from the third line on that has a line after it; 0 when none
closingFence(doc) ==
    LET ks == {k \in 3..(Len(doc) - 1) : doc[k] = Fence}
    IN  IF Len(doc) >= 1 /\ doc[1] = Fence /\ ks # {}
        THEN CHOOSE k \in ks : \A j \in ks : k <= j
        ELSE 0

\* if (!isNaN(Number(value))) value = Number(value)
coerce(text) == IF isNaN(Number(Str(text))) THEN Str(text) ELSE Number(Str(text))

\* parseFrontmatter: frontmatter[key] = value for every 'key: value' line of the
\* block, a later line replacing an earlier one of the same key
parseFrontmatter(doc) ==
    LET close == closingFence(doc)
        metas == {k \in 2..(close - 1) : doc[k].kind = "meta"}
        last(key) == CHOOSE k \in metas :
                        doc[k].name = key /\ \A j \in metas : doc[j].name = key => j <= k
    IN  [frontmatter |-> [key \in {doc[k].name : k \in metas} |-> coerce(doc[last(key)].value)],
         content |-> IF close = 0 THEN doc ELSE SubSeq(doc, close + 1, Len(doc))]

\* buffer.join('\n').trim(): blank lines at both ends go; nothing left is ''
RECURSIVE trimLines(_)
trimLines(lines) ==
    IF lines = <<>> THEN EmptyText
    ELSE IF Head(lines) = Blank THEN trimLines(Tail(lines))
    ELSE IF lines[Len(lines)] = Blank THEN trimLines(SubSeq(lines, 1, Len(lines) - 1))
    ELSE lines

\* subMap
subMap(name) ==
    IF name = "Health" THEN "a" ELSE IF name = "Skill" THEN "b"
    ELSE IF name = "Money" THEN "c" ELSE IF name = "Leverage" THEN "d" ELSE "e"

\* parseSections. The loop flushes the buffer at every heading and at the end,
\* under the key of the heading before; this gives for every key the lines
\* between the last heading that sets the key and the heading, or the end,
\* after it. A '## name' line is a heading only while currentSection is 4, the
\* number of the last '# n.' line before it; lines before the first heading are
\* dropped (currentSection === null).
parseSections(content) ==
    LET n == Len(content)
        isMain(k) == content[k].kind = "main"
        lastOf(S) == CHOOSE k \in S : \A j \in S : j <= k
        mainsBefore(k) == {j \in 1..(k - 1) : isMain(j)}
        isSub(k) ==
            /\ content[k].kind = "sub"
            /\ mainsBefore(k) # {}
            /\ content[lastOf(mainsBefore(k))].n = 4
        heads == {k \in 1..n : isMain(k) \/ isSub(k)}
        flushes == {k \in heads \cup {n + 1} : \E h \in heads : h < k}
        headBefore(k) == lastOf({h \in heads : h < k})
        headingKey(h) ==
            IF isMain(h) THEN "section_" \o ToString(content[h].n)
            ELSE "section_4" \o subMap(content[h].name)
        keyAt(k) == headingKey(headBefore(k))
        lastFlush(key) == lastOf({k \in flushes : keyAt(k) = key})
    IN  [key \in {keyAt(k) : k \in flushes} |->
            trimLines(SubSeq(content, headBefore(lastFlush(key)) + 1, lastFlush(key) - 1))]

\* x || other in the place of x ?? other
nullish_Falsy(x, other) == orElse(x, other)

\* x ?? other
nullish(x, other) == IF x.type \in {"undefined", "null"} THEN other ELSE x

\* fromMarkdown, migrateEntry: the metadata fields, then ...sections, then
\* entry.schema = CURRENT_SCHEMA
fromMarkdown(doc) ==
    LET parsed == parseFrontmatter(doc)
        fm == parsed.frontmatter
        sections == parseSections(parsed.content)
        meta == [schema |-> orElse(field(fm, "schema"), Num(1)),
                 date |-> orElse(field(fm, "date"), Str("")),
                 score |-> nullish(field(fm, "score"), Num(5)),
                 discipline |-> nullish(field(fm, "discipline"), Num(5)),
                 focus |-> nullish(field(fm, "focus"), Num(5)),
                 energy |-> nullish(field(fm, "energy"), Num(5)),
                 mood |-> nullish(field(fm, "mood"), Num(5)),
                 net_worth_delta |-> nullish(field(fm, "net_worth_delta"), Num(0))]
        entry == [k \in DOMAIN meta \cup DOMAIN sections |->
                     IF k \in DOMAIN sections THEN sections[k] ELSE meta[k]]
    IN  [entry EXCEPT !["schema"] = Num(CURRENT_SCHEMA)]

\* the keys of the sections of createEntry
SectionKeys ==
    {"section_1", "section_2", "section_3", "section_4a", "section_4b", "section_4c",
     "section_4d", "section_4e", "section_5", "section_6", "section_7", "section_8",
     "section_9", "section_10", "section_11"}

MetaKeys ==
    {"schema", "date", "score", "discipline", "focus", "energy", "mood", "net_worth_delta"}

\* createEntry(date) with the score set to score and section key set to text
editedEntry(date, score, delta, key, text) ==
    [k \in MetaKeys \cup SectionKeys |->
        IF k = "schema" THEN Num(CURRENT_SCHEMA)
        ELSE IF k = "date" THEN Str(date)
        ELSE IF k = "score" THEN Num(score)
        ELSE IF k = "net_worth_delta" THEN Num(delta)
        ELSE IF k \in MetaKeys THEN Num(5)
        ELSE IF k = key THEN text
        ELSE EmptyText]

\* how many lines an edited section text holds at most
MaxLines == 2

\* the lines typed into a section
TypedLines == {Blank, Text("done"), Main(2, "step"), Main(12, "item"), Sub("Health")}

SectionTexts == UNION {[1..n -> TypedLines] : n \in 1..MaxLines}

InitCodec ==
    /\ appAtRest
    /\ emptyCache
    /\ journal \in
          {[op |-> "none",
            entry |-> editedEntry("2025-01-15", score, delta, key, text),
            out |-> 0] :
              score \in {0, 5, 10}, delta \in {0 - 1, 0}, key \in SectionKeys,
              text \in SectionTexts}
    /\ retry = NotRun /\ call = NotRun /\ page = NotRun

\* toMarkdown(entry)
Encode ==
    /\ journal.op = "none"
    /\ journal' = [journal EXCEPT !.op = "toMarkdown", !.out = toMarkdown(journal.entry)]
    /\ UNCHANGED <<syncVars, retry, call, page>>

\* fromMarkdown of the document toMarkdown returned
Decode ==
    /\ journal.op = "toMarkdown"
    /\ journal' = [journal EXCEPT !.op = "fromMarkdown", !.out = fromMarkdown(journal.out)]
    /\ UNCHANGED <<syncVars, retry, call, page>>

NextCodec ==
    \/ Encode
    \/ Decode

SpecCodec == InitCodec /\ [][NextCodec]_vars

\* C19: the entry decoded from the encoding of a valid entry has the fields of
\* the entry and no other, the same metadata values, and for every section the
\* entry's text without the blank lines at its ends
C19_RoundTrip ==
    journal.op = "fromMarkdown" =>
        /\ DOMAIN journal.out = DOMAIN journal.entry
        /\ \A k \in MetaKeys : journal.out[k] = journal.entry[k]
        /\ \A k \in SectionKeys \cap DOMAIN journal.out :
              journal.out[k] = trimLines(journal.entry[k])


\* ------------------------------------- saves, imports and the drain, with fairness
\* the modelled date d as a key of an import file
keyOf(d) == [year |-> 0, month |-> 0, day |-> d, digits |-> <<4, 2, 2>>]

\* importFromJSON of a file with the one entry {d: {markdown: m}}; the user
\* stores MaxSaves documents at most, by saving or importing
ImportOne(d, m) ==
    LET out == importFromJSON(localStorage, _index,
                              <<[key |-> keyOf(d), markdown |-> m, sha |-> NullSha]>>)
    IN  /\ saves < MaxSaves
        /\ saves' = saves + 1
        /\ localStorage' = out.ls
        /\ _index' = out.idx
        /\ UNCHANGED <<syncInProgress, onLine, remote, tasks, confirmed>>

\* saves, imports, the timer, the online event and the writes; the client does
\* not go offline again
NextLive ==
    \/ (\E d \in Dates, m \in Docs : SaveCurrentEntry(d, m)) /\ UNCHANGED auxVars
    \/ (\E d \in Dates, m \in Docs : ImportOne(d, m)) /\ UNCHANGED auxVars
    \/ CheckPendingSync /\ UNCHANGED auxVars
    \/ OnlineEvent /\ UNCHANGED auxVars
    \/ (\E s \in Slots : ServerPut(s)) /\ UNCHANGED auxVars
    \/ (\E s \in Slots : Response(s)) /\ UNCHANGED auxVars
    \/ (\E s \in Slots, st \in ServerFailures \cup {409, 422} : PutFails(s, st)) /\ UNCHANGED auxVars

\* the timer keeps firing, the online event arrives, a write that the remote
\* store can accept is not refused for ever, and a response on its way arrives
FairLive ==
    /\ WF_vars(CheckPendingSync /\ UNCHANGED auxVars)
    /\ WF_vars(OnlineEvent /\ UNCHANGED auxVars)
    /\ \A s \in Slots : SF_vars(ServerPut(s) /\ UNCHANGED auxVars)
    /\ \A s \in Slots : WF_vars(Response(s) /\ UNCHANGED auxVars)

SpecLive == Init /\ [][NextLive]_vars /\ FairLive

\* C13: every record that is not Synced is Synced at some later time
C13_EventuallySynced ==
    \A d \in Dates : isPending(d) ~> isSynced(d)


\* ------------------------------------------- app: startup (init, refreshIndex)
\* GitHub.listEntries: the dates of the files of the entries directory, sorted
\* and reversed; a directory holds a name once
listEntries(rem) == descending({d \in Dates : rem[d].sha # NullSha})

\* the listing request of refreshIndex under withRetry, attempt i = 0
listRequest == [Idle EXCEPT !.kind = "boot", !.phase = "sent"]

\* refreshIndex that empties the index when the listing fails
refreshIndex_ClearOnFail(idx, ok, dates) == IF ok THEN sortReverse(dates) ELSE <<>>

\* refreshIndex: try { Index.setDates(await GitHub.listEntries()) } catch { };
\* the in-memory index it leaves
refreshIndex(idx, ok, dates) == IF ok THEN sortReverse(dates) ELSE idx

\* the caches an earlier session leaves in localStorage: any records, queued
\* dates are Pending ones, and an index that saves and refreshes have written
BootStores ==
    {[entries |-> e, pending |-> q, index |-> descending(S)] :
        e \in [Dates -> StoreRecords],
        q \in QueueOrders(Dates),
        S \in SUBSET Dates}

\* the page has loaded: module state as declared, the cache of the earlier
\* session, a repository in any state
InitBoot ==
    /\ localStorage \in
          {ls \in BootStores : \A d \in Dates : includes(ls.pending, d) => pendingIn(ls, d)}
    /\ _index = <<>>
    /\ syncInProgress = FALSE
    /\ onLine \in BOOLEAN
    /\ remote \in [Dates -> {[content |-> NoMarkdown, sha |-> NullSha],
                             [content |-> 1, sha |-> 1]}]
    /\ tasks = [s \in Slots |-> Idle]
    /\ saves = 0
    /\ confirmed = [d \in Dates |-> [content |-> NoMarkdown, sha |-> NullSha]]
    /\ call = NoCall
    /\ retry = NotRun /\ page = NotRun /\ journal = NotRun

bootFrame == UNCHANGED <<retry, page, journal>>

\* init() with stored credentials: Index.init(), then initWithCredentials up to
\* the await of the listing; offline, initWithCredentials does nothing more
AppInit ==
    /\ call = NoCall
    /\ _index' = localStorage.index
    /\ tasks' = IF onLine THEN [tasks EXCEPT ![firstFree] = listRequest] ELSE tasks
    /\ call' = [op |-> "init", arg |-> 0, before |-> 0, ret |-> 0]
    /\ UNCHANGED <<localStorage, syncInProgress, onLine, remote, confirmed, saves>>
    /\ bootFrame

\* the remote store answers the listing (404, read as the empty listing, when
\* the directory is absent)
ServerList(s) ==
    /\ tasks[s].kind = "boot" /\ tasks[s].phase = "sent"
    /\ tasks' = [tasks EXCEPT ![s].phase = "resp", ![s].list = listEntries(remote)]
    /\ UNCHANGED <<localStorage, _index, syncInProgress, onLine, remote, confirmed, saves, call>>
    /\ bootFrame

\* refreshIndex has returned to initWithCredentials, which awaits
\* syncPendingEntries() in slot s: the drain's first write, or nothing
bootDrain(s, ls) ==
    LET pending == ls.pending
        p == nextSyncable(ls, pending, 1)
    IN  IF drainBlocked(onLine) \/ pending = <<>> \/ p = 0
        THEN /\ tasks' = [tasks EXCEPT ![s] = Idle]
             /\ syncInProgress' = syncInProgress
        ELSE /\ tasks' = [tasks EXCEPT ![s] = syncEntryRequest(ls, "drain", pending[p], pending, p)]
             /\ syncInProgress' = TRUE

\* refreshIndex after its await (ok: listEntries returned dates, else it threw)
refreshIndexDone(s, ok, dates) ==
    /\ _index' = refreshIndex(_index, ok, dates)
    /\ localStorage' = IF ok THEN setIndex(localStorage, _index') ELSE localStorage
    /\ call' = [op |-> "refreshIndex", arg |-> dates, before |-> _index,
                ret |-> IF ok THEN "listed" ELSE "swallowed"]
    /\ bootDrain(s, localStorage')
    /\ UNCHANGED <<onLine, remote, confirmed, saves>>
    /\ bootFrame

\* the listing arrives
ListResponse(s) ==
    /\ tasks[s].kind = "boot" /\ tasks[s].phase = "resp"
    /\ refreshIndexDone(s, TRUE, tasks[s].list)

\* a listing attempt fails with status st: listFiles throws into withRetry's
\* catch, which makes the next attempt or throws to refreshIndex
ListFails(s, st) ==
    LET t == tasks[s]
    IN  /\ t.kind = "boot" /\ t.phase = "sent"
        /\ st \in ServerFailures \ {404}
        /\ IF retryAgain(st, t.i)
           THEN /\ tasks' = [tasks EXCEPT ![s].i = t.i + 1, ![s].lastError = st]
                /\ UNCHANGED <<localStorage, _index, syncInProgress, onLine, remote,
                               confirmed, saves, call>>
                /\ bootFrame
           ELSE refreshIndexDone(s, FALSE, <<>>)

\* startup: no listener and no timer is bound before initWithCredentials has
\* returned, so only the requests of the startup move
NextBoot ==
    \/ AppInit
    \/ \E s \in Slots : ServerList(s)
    \/ \E s \in Slots : ListResponse(s)
    \/ \E s \in Slots, st \in ServerFailures : ListFails(s, st)
    \/ OfflineEvent /\ UNCHANGED auxVars
    \/ (\E s \in Slots : ServerPut(s)) /\ UNCHANGED auxVars
    \/ (\E s \in Slots : isPut(tasks[s]) /\ Response(s)) /\ UNCHANGED auxVars
    \/ (\E s \in Slots, st \in ServerFailures \cup {409, 422} : PutFails(s, st)) /\ UNCHANGED auxVars

SpecBoot == InitBoot /\ [][NextBoot]_vars

\* C21: no step of the startup (index refresh, drain) takes a date that has a
\* cache record out of the index, in memory or persisted
C21_IndexedStays ==
    [][\A d \in Dates :
        /\ (includes(_index, d) /\ entryOf(d).exists) => includes(_index', d)
        /\ (includes(localStorage.index, d) /\ entryOf(d).exists) =>
               includes(localStorage'.index, d)]_vars

\* C22: the step in which the listing of refreshIndex fails for good leaves the
\* index as it was, in memory and persisted, and the cache with it; refreshIndex
\* returns without an error and the startup goes on with syncPendingEntries: the
\* slot holds the drain's first write when the client is online and a queued
\* date has a document, and nothing otherwise
C22_ListingFailureSwallowed ==
    [][\A s \in Slots, st \in ServerFailures :
        (ListFails(s, st) /\ ~retryAgain(st, tasks[s].i)) =>
            /\ _index' = _index
            /\ localStorage' = localStorage
            /\ call'.ret = "swallowed"
            /\ LET queued == {k \in 1..Len(localStorage.pending) :
                                 hasMarkdown(localStorage, localStorage.pending[k])}
               IN  IF onLine /\ queued # {}
                   THEN /\ tasks'[s].kind = "drain" /\ tasks'[s].phase = "sent"
                        /\ \E k \in queued :
                              /\ tasks'[s].date = localStorage.pending[k]
                              /\ \A j \in queued : k <= j
                        /\ syncInProgress'
                   ELSE tasks'[s] = Idle /\ ~syncInProgress']_vars

\* the listing failed, the index read from the cache is still there, and the
\* drain's first write is out
C22_Witness ==
    /\ call.op = "refreshIndex" /\ call.ret = "swallowed"
    /\ _index # <<>> /\ _index = call.before /\ localStorage.index = _index
    /\ \E s \in Slots : tasks[s].kind = "drain" /\ tasks[s].phase = "sent" /\ tasks[s].i = 0
    /\ syncInProgress


\* ------------------------------------- github client: getFile, listFiles alone
\* the statuses the remote store answers a read or a listing with
ReadStatuses == {200, 401, 404, 500}

\* what a request function does with a response: it returns a value ("null",
\* "[]", the file {content, sha}, the mapped listing) or throws an error that
\* carries the status
returns(value) == [threw |-> FALSE, value |-> value, status |-> 0]
throws(status) == [threw |-> TRUE, value |-> "none", status |-> status]

\* getFile without its test for 404
getFile_Throws404(status) ==
    IF status \notin 200..299 THEN throws(status) ELSE returns("file")

\* getFile: 404 returns null, !response.ok throws
getFile(status) ==
    IF status = 404 THEN returns("null")
    ELSE IF status \notin 200..299 THEN throws(status)
    ELSE returns("file")

\* listFiles: 404 returns [], !response.ok throws; the body of a directory is
\* an array
listFiles(status) ==
    IF status = 404 THEN returns("[]")
    ELSE IF status \notin 200..299 THEN throws(status)
    ELSE returns("listing")

ReadFunctions == {"getFile", "listFiles"}

requestOf(fn, status) == IF fn = "getFile" THEN getFile(status) ELSE listFiles(status)

\* a run of getEntry / listEntries: withRetry(() => fn(path)) that has entered
\* the loop; outcomes are the statuses of the responses to come
ReadStart(fn, outcomes) ==
    [fn |-> fn, outcomes |-> outcomes, i |-> 0, phase |-> "call", attempts |-> 0,
     waits |-> <<>>, lastError |-> 0, result |-> 0, value |-> "none"]

InitRead ==
    /\ appAtRest
    /\ emptyCache
    /\ retry \in {ReadStart(fn, o) : fn \in ReadFunctions, o \in [1..maxRetries -> ReadStatuses]}
    /\ call = NotRun /\ page = NotRun /\ journal = NotRun

\* try { return await fn(); } catch (error) { lastError = error; if fatal throw error; }
ReadCall ==
    LET st == outcomeAt(retry, retry.attempts + 1)
        r == requestOf(retry.fn, st)
    IN  /\ retry.phase = "call"
        /\ retry' =
             IF ~r.threw
             THEN [retry EXCEPT !.attempts = @ + 1, !.phase = "returned", !.result = st,
                                !.value = r.value]
             ELSE IF fatalStatus(r.status)
             THEN [retry EXCEPT !.attempts = @ + 1, !.lastError = r.status,
                                !.phase = "thrown", !.result = r.status]
             ELSE [retry EXCEPT !.attempts = @ + 1, !.lastError = r.status, !.phase = "delay"]
        /\ UNCHANGED <<syncVars, call, page, journal>>

NextRead ==
    \/ ReadCall
    \/ RetryDelay

SpecRead == InitRead /\ [][NextRead]_vars

\* the value that stands for "nothing there"
absentValue(fn) == IF fn = "getFile" THEN "null" ELSE "[]"

\* C23: a read or a listing answered 404 returns the absent value (null, the
\* empty list): the attempt is the last one, the run has returned and no wait
\* follows the attempt, so a first response of 404 ends the run after one
\* request; an attempt answered with any other status outside 200..299 raises
\* an error with that status, and one answered 200 returns what was read
C23_NotFoundIsAbsent ==
    \A k \in 1..retry.attempts :
        LET st == outcomeAt(retry, k)
        IN  /\ st = 404 =>
                  /\ retry.attempts = k
                  /\ retry.phase = "returned"
                  /\ retry.value = absentValue(retry.fn)
                  /\ Len(retry.waits) = k - 1
            /\ (st \notin 200..299 /\ st # 404 /\ retry.attempts = k) =>
                  /\ retry.phase # "returned"
                  /\ retry.lastError = st
                  /\ retry.value = "none"
            /\ st \in 200..299 =>
                  /\ retry.attempts = k
                  /\ retry.phase = "returned"
                  /\ retry.value \notin {"none", absentValue(retry.fn)}

\* the listing of an absent directory: the empty list after one request
C23_Witness ==
    /\ retry.fn = "listFiles"
    /\ retry.outcomes[1] = 404
    /\ retry.phase = "returned"
    /\ retry.attempts = 1
    /\ retry.value = "[]"
    /\ retry.waits = <<>>


\* ------------------------------- app: saveCurrentEntry from the editor form
\* what parseInt gives for the overall score typed into the form: 5, 11, or
\* NaN for text that starts with no digit
FormScores == {Num(5), Num(11), NaN}

\* getFormData: the entry of the form for currentDate = d, the other fields at
\* their defaults
getFormData(d, score) ==
    [date |-> keyOf(d), net_worth_delta |-> Num(0), score |-> score,
     discipline |-> Num(5), focus |-> Num(5), energy |-> Num(5), mood |-> Num(5)]

\* a handler that saves whatever the validation said
saveRejected_Never(validation) == FALSE

\* if (!validation.valid) { toast; return; }
saveRejected(validation) == ~validation.valid

\* saveCurrentEntry of a valid form while localStorage.setItem throws (storage
\* full or unavailable): setItem returns false and nobody looks at it, so
\* Storage.saveEntry, updateIndex, setIndex and markPending store nothing;
\* Index.addDate still changes the list in memory; syncEntry reads the record
\* that is stored
SaveUnstored(d, m) ==
    /\ saves < MaxSaves
    /\ saves' = saves + 1
    /\ _index' = addDate(_index, d)
    /\ localStorage' = localStorage
    /\ IF onLine /\ hasMarkdown(localStorage, d)
       THEN /\ freeSlots # {}
            /\ tasks' = [tasks EXCEPT ![firstFree] =
                            syncEntryRequest(localStorage, "save", d, <<>>, 0)]
       ELSE tasks' = tasks
    /\ UNCHANGED <<syncInProgress, onLine, remote, confirmed>>

\* saveCurrentEntry: the form of date d with the score typed and the document
\* m; writable tells whether localStorage takes writes during the handler
SaveForm(d, score, m, writable) ==
    LET entry == getFormData(d, score)
        validation == validateEntry(entry)
    IN  /\ journal' = [op |-> "saveCurrentEntry", entry |-> entry, out |-> validation]
        /\ IF saveRejected(validation) THEN UNCHANGED syncVars
           ELSE IF writable THEN SaveCurrentEntry(d, m)
           ELSE SaveUnstored(d, m)
        /\ UNCHANGED <<retry, call, page>>

InitSave ==
    /\ appAtRest
    /\ emptyCache
    /\ journal = [op |-> "none", entry |-> Null, out |-> validateEntry(Null)]
    /\ retry = NotRun /\ call = NotRun /\ page = NotRun

NextSave ==
    \/ \E d \in Dates, score \in FormScores, m \in Docs, writable \in BOOLEAN :
          SaveForm(d, score, m, writable)
    \/ CheckPendingSync /\ UNCHANGED auxVars
    \/ OnlineEvent /\ UNCHANGED auxVars
    \/ OfflineEvent /\ UNCHANGED auxVars
    \/ (\E s \in Slots : ServerPut(s)) /\ UNCHANGED auxVars
    \/ (\E s \in Slots : isPut(tasks[s]) /\ Response(s)) /\ UNCHANGED auxVars
    \/ (\E s \in Slots, st \in ServerFailures \cup {409, 422} : PutFails(s, st)) /\ UNCHANGED auxVars

SpecSave == InitSave /\ [][NextSave]_vars

\* C24: a step in which saveCurrentEntry is handed a form that does not pass
\* the validation (journal records the form and the verdict) changes nothing:
\* cache records, index (persisted and in memory), pending queue, remote store,
\* the drain's flag and the requests in flight are as before, so no write is
\* issued, then or later, for that form
C24_InvalidSaveChangesNothing ==
    [][(journal' # journal /\ ~journal'.out.valid) =>
            /\ localStorage' = localStorage
            /\ _index' = _index
            /\ tasks' = tasks
            /\ remote' = remote
            /\ syncInProgress' = syncInProgress
            /\ saves' = saves]_vars

\* the first thing the user did was to save a form with a score of 11: the
\* validation reported it and cache, index, queue and requests are still empty
C24_Witness ==
    /\ journal.op = "saveCurrentEntry"
    /\ journal.entry.score = Num(11)
    /\ ~journal.out.valid /\ Len(journal.out.errors) = 1
    /\ localStorage = [entries |-> [d \in Dates |-> NoEntry], pending |-> <<>>, index |-> <<>>]
    /\ _index = <<>>
    /\ \A s \in Slots : tasks[s] = Idle
    /\ saves = 0

\* C25: after a save of a valid form during which the cache write failed, the
\* saved date is not Synced
C25_UnstoredSaveNotSynced ==
    [][\A d \in Dates, m \in Docs :
        SaveForm(d, Num(5), m, FALSE) => ~isSynced(d)']_vars


\* --------------------------- index.js and storage.js: the two copies of the index
\* Storage.deleteEntry: the record goes, and the date leaves the persisted index
deleteEntry(ls, date) ==
    [ls EXCEPT !.entries[date] = NoEntry, !.index = filterOut(ls.index, date)]

\* Storage.saveEntry on its own: the record is stored and updateIndex adds the
\* date to the persisted index; the list in memory is not told
StoreEntry(d) ==
    /\ localStorage' = Storage_saveEntry(localStorage, d, 1, NullSha, FALSE)
    /\ call' = [op |-> "updateIndex", arg |-> d, before |-> localStorage.index, ret |-> 0]
    /\ UNCHANGED <<_index, page>>
    /\ indexFrame

\* Storage.deleteEntry on its own
DeleteEntry(d) ==
    /\ localStorage' = deleteEntry(localStorage, d)
    /\ call' = NoCall
    /\ UNCHANGED <<_index, page>>
    /\ indexFrame

NextDates ==
    \/ \E n \in ListingSizes : SetDates(n)
    \/ \E d \in EditedDates : AddDate(d)
    \/ \E d \in EditedDates : RemoveDate(d)
    \/ \E d \in EditedDates : StoreEntry(d)
    \/ \E d \in EditedDates : DeleteEntry(d)

SpecDates == InitIndex /\ [][NextDates]_vars

\* every date of the list is later than the one after it
strictlyDescending(seq) == \A k \in 1..(Len(seq) - 1) : seq[k] > seq[k + 1]

\* C26: whatever sequence of setDates, addDate, removeDate, Storage.saveEntry
\* (updateIndex) and Storage.deleteEntry has run, the index in memory and the
\* persisted index are each in strictly descending order: most recent first, no
\* date twice
C26_IndexDescending ==
    /\ strictlyDescending(_index)
    /\ strictlyDescending(localStorage.index)

\* updateIndex has put a new date between two dates of the persisted index,
\* which differs from the list in memory
C26_Witness ==
    /\ call.op = "updateIndex"
    /\ ~includes(call.before, call.arg)
    /\ Len(localStorage.index) >= 3
    /\ \E k \in 2..(Len(localStorage.index) - 1) : localStorage.index[k] = call.arg
    /\ localStorage.index # _index


\* ------------------------------------------------- index.js: the search filter
\* the query as the claim reads it: lower-cased, without the spaces around it
strippedQuery(query) ==
    LET inked == {k \in 1..Len(query) : query[k] # " "}
        first == CHOOSE k \in inked : \A j \in inked : k <= j
        last == CHOOSE k \in inked : \A j \in inked : j <= k
    IN  IF inked = {} THEN <<>>
        ELSE [k \in 1..(last - first + 1) |-> lowerChar(query[first + k - 1])]

\* text holds q at some position when letters are compared without their case
holdsFolded(text, q) ==
    \E k \in 0..(Len(text) - Len(q)) : \A j \in 1..Len(q) : lowerChar(text[k + j]) = q[j]

\* C27: a setSearchQuery step sets the current page to 1, and the filtered
\* dates are then exactly the dates d of the index, in the order of the index,
\* for which the query, lower-cased and trimmed, is empty, or is part of d's
\* date string, or is part of the cached document of d read without case; a
\* date without a cached document is kept only for its date string
C27_SearchFilter ==
    [][\A query \in Queries :
        SetSearchQuery(query) =>
            /\ page'.currentPage = 1
            /\ getFilteredDates(_index', page'.searchQuery, localStorage') =
                   SelectSeq(_index,
                       LAMBDA d :
                           \/ strippedQuery(query) = <<>>
                           \/ holdsFolded(dateText(d), strippedQuery(query))
                           \/ /\ hasMarkdown(localStorage, d)
                              /\ holdsFolded(docText(getEntry(localStorage, d).markdown),
                                             strippedQuery(query)))]_vars

\* the query " A " is stored as "a" and keeps, of an index of many dates, the
\* one date whose cached document holds the letter in upper case
C27_Witness ==
    /\ page.searchQuery = <<"a">>
    /\ page.currentPage = 1
    /\ Len(_index) >= PAGE_SIZE
    /\ hasMarkdown(localStorage, 1)
    /\ getFilteredDates(_index, page.searchQuery, localStorage) = <<1>>


\* ------------------------------------- journal: validateEntry, all violations
\* the fields of an entry that break a rule of the schema: a date that has not
\* the shape YYYY-MM-DD, a score that is present and is not numeric or not
\* within [0,10], a net worth delta that is present and is not numeric
violations(entry) ==
    (IF matchesDatePattern(entry.date) THEN {} ELSE {"date"})
    \cup {scoreFields[k] : k \in {j \in 1..Len(scoreFields) :
              LET x == entry[scoreFields[j]]
              IN  x # Undefined /\ (~numeric(x) \/ ~withinBounds(x))}}
    \cup (IF entry.net_worth_delta # Undefined /\ ~numeric(entry.net_worth_delta)
          THEN {"net_worth_delta"} ELSE {})

partialEntry(score, key, text, missing) ==
    [k \in (MetaKeys \cup SectionKeys) \ {missing} |->
        editedEntry("2025-01-15", score, 0, key, text)[k]]

InitEncode ==
    /\ appAtRest
    /\ emptyCache
    /\ journal \in
          {[op |-> "none", entry |-> partialEntry(score, key, text, missing), out |-> 0] :
              score \in {0, 10}, key \in SectionKeys, text \in SectionTexts,
              missing \in SectionKeys \cup {"none"}}
    /\ retry = NotRun /\ call = NotRun /\ page = NotRun

NextEncode ==
    \/ Encode

SpecEncode == InitEncode /\ [][NextEncode]_vars

\* the names of the metadata block, in the order of the claim
metaOrder ==
    <<"schema", "date", "score", "discipline", "focus", "energy", "mood", "net_worth_delta">>

\* the headings in the order of the claim: the number of a '# n.' heading or
\* the name of a '## name' heading under '# 4.', and the field written below
\* it ("" for '# 4.' itself, which has the subheadings below it)
headingOrder ==
    <<[n |-> 1, sub |-> "", key |-> "section_1"],
      [n |-> 2, sub |-> "", key |-> "section_2"],
      [n |-> 3, sub |-> "", key |-> "section_3"],
      [n |-> 4, sub |-> "", key |-> ""],
      [n |-> 4, sub |-> "Health", key |-> "section_4a"],
      [n |-> 4, sub |-> "Skill", key |-> "section_4b"],
      [n |-> 4, sub |-> "Money", key |-> "section_4c"],
      [n |-> 4, sub |-> "Leverage", key |-> "section_4d"],
      [n |-> 4, sub |-> "Mind", key |-> "section_4e"],
      [n |-> 5, sub |-> "", key |-> "section_5"],
      [n |-> 6, sub |-> "", key |-> "section_6"],
      [n |-> 7, sub |-> "", key |-> "section_7"],
      [n |-> 8, sub |-> "", key |-> "section_8"],
      [n |-> 9, sub |-> "", key |-> "section_9"],
      [n |-> 10, sub |-> "", key |-> "section_10"],
      [n |-> 11, sub |-> "", key |-> "section_11"]>>

\* the lines written below heading k: the field's text, one empty line when
\* the entry has no such field, nothing for '# 4.'
bodyOf(entry, k) ==
    IF headingOrder[k].key = "" THEN <<>>
    ELSE IF headingOrder[k].key \in DOMAIN entry THEN entry[headingOrder[k].key]
    ELSE <<Blank>>

\* the line of heading k: the lines and the separating empty lines of the
\* headings before it come first, after the ten lines of the metadata block
\* and an empty line
RECURSIVE headingAt(_, _)
headingAt(entry, k) ==
    IF k = 1 THEN 12 ELSE headingAt(entry, k - 1) + 1 + Len(bodyOf(entry, k - 1)) + 1

isHeading(line, h) ==
    IF h.sub = "" THEN line.kind = "main" /\ line.n = h.n
    ELSE line.kind = "sub" /\ line.name = h.sub

\* C29: the document toMarkdown returns starts with '---', the eight metadata
\* lines in the fixed order, '---' and an empty line; then come the sixteen
\* headings in the fixed order, each followed by the text of its field (one
\* empty line when the field is missing or empty) and, except for the last one,
\* by an empty line; the document ends with the text below '# 11.'
C29_FixedLayout ==
    journal.op = "toMarkdown" =>
        LET doc == journal.out
            entry == journal.entry
            last == Len(headingOrder)
        IN  /\ doc[1] = Fence /\ doc[10] = Fence /\ doc[11] = Blank
            /\ \A k \in 1..Len(metaOrder) :
                  doc[k + 1].kind = "meta" /\ doc[k + 1].name = metaOrder[k]
            /\ \A k \in 1..last :
                  LET at == headingAt(entry, k)
                      body == bodyOf(entry, k)
                  IN  /\ at <= Len(doc)
                      /\ isHeading(doc[at], headingOrder[k])
                      /\ SubSeq(doc, at + 1, at + Len(body)) = body
                      /\ k < last => doc[at + Len(body) + 1] = Blank
            /\ Len(doc) = headingAt(entry, last) + Len(bodyOf(entry, last))

\* an entry without the field section_2, whose section_1 holds two lines, has
\* been encoded
C29_Witness ==
    /\ journal.op = "toMarkdown"
    /\ "section_2" \notin DOMAIN journal.entry
    /\ Len(journal.entry["section_1"]) = 2
    /\ journal.entry["section_1"][1] = Text("done")


\* ------------------------------------- journal: fromMarkdown, metadata defaults
\* what a document's metadata block says of a key: nothing (Undefined), or a
\* value written after 'key: '
WrittenValues(key) ==
    IF key = "date" THEN {Undefined, Str("2025-01-15")}
    ELSE IF key = "schema" THEN {Undefined, Num(0), Num(2)}
    ELSE IF key = "net_worth_delta" THEN {Undefined, Num(0), Num(0 - 1)}
    ELSE {Undefined, Num(0), Num(7)}

\* the document with the metadata lines of the written keys, in the order of
\* toMarkdown, and one section
metaDocument(written) ==
    <<Fence>>
    \o [k \in 1..Len(SelectSeq(metaOrder, LAMBDA key : written[key] # Undefined)) |->
           LET key == SelectSeq(metaOrder, LAMBDA name : written[name] # Undefined)[k]
           IN  Meta(key, templateText(written[key]))]
    \o <<Fence, Blank, Main(1, "Identity & North Star"), Text("done")>>

InitDecode ==
    /\ appAtRest
    /\ emptyCache
    /\ journal \in
          {[op |-> "none", entry |-> written, out |-> 0] :
              written \in {w \in [MetaKeys -> UNION {WrittenValues(key) : key \in MetaKeys}] :
                              \A key \in MetaKeys : w[key] \in WrittenValues(key)}}
    /\ retry = NotRun /\ call = NotRun /\ page = NotRun

\* fromMarkdown of the document with the written metadata
FromMarkdown ==
    /\ journal.op = "none"
    /\ journal' = [journal EXCEPT !.op = "fromMarkdown",
                                  !.out = fromMarkdown(metaDocument(journal.entry))]
    /\ UNCHANGED <<syncVars, retry, call, page>>

NextDecode ==
    \/ FromMarkdown

SpecDecode == InitDecode /\ [][NextDecode]_vars

\* the default of a metadata field that holds a number
defaultOf(key) ==
    IF key = "net_worth_delta" THEN Num(0) ELSE IF key = "schema" THEN Num(1) ELSE Num(5)

\* the decoded field is the written number, or the default when none is written
keptOrDefault(key) ==
    journal.out[key] =
        IF journal.entry[key] = Undefined THEN defaultOf(key) ELSE journal.entry[key]

\* C30 as stated: each of score, discipline, focus, energy, mood,
\* net_worth_delta and schema is decoded as the number the metadata block
\* holds for it, 0 included, and as its default (5, 0, 1) when the block has no
\* line for it
C30_WrittenKept ==
    journal.op = "fromMarkdown" =>
        \A key \in MetaKeys \ {"date"} : keptOrDefault(key)

\* C30 amended: the five scores and net_worth_delta are decoded as the number
\* the metadata block holds, 0 included, and as their default (5, 0) when the
\* block has no line for them; the decoded schema is 1, the default and the
\* current version, whatever the block holds
C30_ScoresKeptSchemaCurrent ==
    journal.op = "fromMarkdown" =>
        /\ \A key \in MetaKeys \ {"date", "schema"} : keptOrDefault(key)
        /\ journal.out["schema"] = Num(1)

\* a document with 'score: 0' and 'schema: 2' and no line for discipline has
\* been decoded to score 0, discipline 5 and schema 1
C30_Witness ==
    /\ journal.op = "fromMarkdown"
    /\ journal.entry["score"] = Num(0) /\ journal.out["score"] = Num(0)
    /\ journal.entry["discipline"] = Undefined /\ journal.out["discipline"] = Num(5)
    /\ journal.entry["net_worth_delta"] = Undefined /\ journal.out["net_worth_delta"] = Num(0)
    /\ journal.entry["schema"] = Num(2) /\ journal.out["schema"] = Num(1)


\* ------------------------------------------- loadEntry against a local save
\* C31: loadEntry(d) never overwrites an existing cache record: when a local
\* save of d was performed while loadEntry's read of d was suspended, the step in
\* which loadEntry resumes and ends leaves d's record Pending with the locally
\* saved document.
C31_LoadKeepsLocalSave ==
    [][\A s \in Slots, d \in Dates :
        (/\ tasks[s].kind = "load" /\ tasks[s].date = d
         /\ isPending(d)
         /\ tasks'[s] = Idle) =>
            /\ isPending(d)'
            /\ entryOf(d)'.markdown = entryOf(d).markdown]_vars


\* ------------------------------------------- the stored token of a record
\* C32: the sha stored with an existing cache record changes only in the step
\* in which a successful remote write of its date returns, and then to the sha
\* that write returned; a local save, a failed sync, an import, a prune and the
\* index operations leave the stored sha of an existing record as it was.
C32_TokenOnlyByWrite ==
    [][\A d \in DOMAIN localStorage.entries :
        (/\ entryOf(d).exists /\ entryOf(d)'.exists
         /\ entryOf(d)'.sha # entryOf(d).sha) =>
            \E s \in Slots :
                /\ isPut(tasks[s]) /\ tasks[s].date = d /\ tasks[s].phase = "resp"
                /\ endsTask(s)
                /\ entryOf(d)'.sha = tasks[s].rsha]_vars


\* ------------------------------------------------ the drain comes to an end
\* saves, the timer, the network events and the writes, without loads
NextDrain ==
    \/ (\E d \in Dates, m \in Docs : SaveCurrentEntry(d, m)) /\ UNCHANGED auxVars
    \/ CheckPendingSync /\ UNCHANGED auxVars
    \/ OnlineEvent /\ UNCHANGED auxVars
    \/ OfflineEvent /\ UNCHANGED auxVars
    \/ (\E s \in Slots : ServerPut(s)) /\ UNCHANGED auxVars
    \/ (\E s \in Slots : Response(s)) /\ UNCHANGED auxVars
    \/ (\E s \in Slots, st \in ServerFailures \cup {409, 422} : PutFails(s, st)) /\ UNCHANGED auxVars

\* fetch settles: a request that is out is answered, by the remote store or by a
\* failure, and a response on its way arrives
Answered(s) ==
    ServerPut(s) \/ \E st \in ServerFailures \cup {409, 422} : PutFails(s, st)

FairDrain ==
    /\ \A s \in Slots : WF_vars(Answered(s) /\ UNCHANGED auxVars)
    /\ \A s \in Slots : WF_vars(Response(s) /\ UNCHANGED auxVars)

SpecDrain == Init /\ [][NextDrain]_vars /\ FairDrain

\* C33: every drain started by syncPendingEntries ends and resets its guard:
\* whenever syncInProgress is true it is false again at some later time, whatever
\* mix of successful and failed writes the drain meets.
C33_DrainEnds ==
    syncInProgress ~> ~syncInProgress

\* a drain that has gone past its first date and whose write of a later date
\* has failed at least once
C33_Witness ==
    /\ syncInProgress
    /\ \E s \in drainTasks : tasks[s].pos > 1 /\ tasks[s].i > 0


\* ------------------------------------------------- one undisturbed drain
\* the app (saves, timer, network events, writes, failures) up to some drain,
\* which is then followed alone: call records the queue it was started with and
\* whether it is still running; until then call = NoCall
InitClean ==
    /\ Init!1 /\ Init!2 /\ Init!3 /\ Init!4 /\ Init!5 /\ Init!6 /\ Init!7 /\ Init!8
    /\ call = NoCall
    /\ retry = NotRun /\ page = NotRun /\ journal = NotRun

\* any step of the app before the drain that is followed
BeforeDrain ==
    /\ call = NoCall
    /\ NextDrain

\* a call of syncPendingEntries (from the timer or the online event) that finds
\* no request out and starts a drain
StartDrain ==
    /\ call = NoCall
    /\ \A s \in Slots : tasks[s] = Idle
    /\ CheckPendingSync \/ OnlineEvent
    /\ syncInProgress'
    /\ call' = [op |-> "syncPendingEntries", arg |-> localStorage.pending,
                before |-> localStorage, ret |-> "running"]
    /\ UNCHANGED <<retry, page, journal>>

drainFollowed == call.op = "syncPendingEntries" /\ call.ret = "running"

\* the followed drain's write is applied by the remote store
DrainWrite(s) ==
    /\ drainFollowed
    /\ ServerPut(s)
    /\ UNCHANGED auxVars

\* the write returns; syncEntry marks the date, the loop goes on or ends
DrainResponse(s) ==
    /\ drainFollowed
    /\ Response(s)
    /\ call' = [call EXCEPT !.ret = IF syncInProgress' THEN "running" ELSE "done"]
    /\ UNCHANGED <<retry, page, journal>>

NextClean ==
    \/ BeforeDrain
    \/ StartDrain
    \/ \E s \in Slots : DrainWrite(s)
    \/ \E s \in Slots : DrainResponse(s)

SpecClean == InitClean /\ [][NextClean]_vars

\* C34: when a drain has run to its end with every write succeeding and nothing
\* else in between, the pending queue is empty: every date that was queued when
\* the drain started has been removed.
C34_CleanDrainEmptiesQueue ==
    (call.op = "syncPendingEntries" /\ call.ret = "done") =>
        /\ localStorage.pending = <<>>
        /\ \A d \in Dates : includes(call.arg, d) => isSynced(d)

\* a drain that was started with two queued dates has ended
C34_Witness ==
    /\ call.op = "syncPendingEntries" /\ call.ret = "done"
    /\ Len(call.arg) = 2
    /\ ~syncInProgress


\* ------------------------------------------------- Storage.deleteEntry
\* deleteEntry(d), called on any cache; call keeps the cache it was called on
DeleteCached(d) ==
    /\ localStorage' = deleteEntry(localStorage, d)
    /\ call' = [op |-> "deleteEntry", arg |-> d, before |-> localStorage, ret |-> 0]
    /\ UNCHANGED <<_index, syncInProgress, onLine, remote, tasks, confirmed, saves,
                   retry, page, journal>>

NextDelete ==
    \/ \E d \in Dates : DeleteCached(d)

\* the caches deleteEntry is called on: every queued date has a Pending record
InitDelete ==
    /\ appAtRest
    /\ localStorage \in {st \in StoreStates :
                            \A k \in 1..Len(st.pending) : pendingIn(st, st.pending[k])}
    /\ _index = localStorage.index
    /\ call = NoCall
    /\ retry = NotRun /\ page = NotRun /\ journal = NotRun

SpecDelete == InitDelete /\ [][NextDelete]_vars

\* C35: after deleteEntry(d), d has no cache record, is not in the persisted
\* index and is not in the pending queue, and the records, the index membership
\* and the queue membership of every other date are as before the call.
C35_DeleteRemovesEverywhere ==
    call.op = "deleteEntry" =>
        /\ ~localStorage.entries[call.arg].exists
        /\ ~includes(localStorage.index, call.arg)
        /\ ~includes(localStorage.pending, call.arg)
        /\ \A e \in Dates \ {call.arg} :
              /\ localStorage.entries[e] = call.before.entries[e]
              /\ includes(localStorage.index, e) <=> includes(call.before.index, e)
              /\ includes(localStorage.pending, e) <=> includes(call.before.pending, e)


\* ------------------------------------------- the two copies of the index
\* C36: after every completed operation the index in memory and the persisted
\* index hold the same dates: no operation writes a date to one of them without
\* the other.
C36_IndexCopiesAgree ==
    \A d \in Dates : includes(_index, d) <=> includes(localStorage.index, d)


\* ------------------------------------------------- what pruneCache removes
\* C37: pruneCache(N) removes exactly the records that are Synced and whose date
\* is not among the N most recent dates of the cache (a date is among them when
\* fewer than N stored dates are later), does nothing when the cache holds at
\* most N records, and leaves the persisted index and the pending queue as
\* they were.
C37_PruneExactly ==
    call.op = "pruneCache" =>
        LET before == call.before
            stored == {d \in Dates : before.entries[d].exists}
            later(d) == Cardinality({e \in stored : e > d})
        IN  /\ \A d \in Dates :
                  localStorage.entries[d] =
                      IF syncedIn(before, d) /\ later(d) >= call.arg
                      THEN NoEntry
                      ELSE before.entries[d]
            /\ localStorage.index = before.index
            /\ localStorage.pending = before.pending
            /\ Cardinality(stored) <= call.arg => localStorage = before

\* two Synced records and a retention count of one: the older record is gone,
\* the more recent one is kept
C37_Witness ==
    /\ call.op = "pruneCache"
    /\ call.arg = 1
    /\ \E d, e \in Dates :
          /\ d < e
          /\ syncedIn(call.before, d) /\ syncedIn(call.before, e)
          /\ ~localStorage.entries[d].exists
          /\ localStorage.entries[e] = call.before.entries[e]


\* ------------------------------------------------- the pages of getPage
\* the value getPage returns when the stored page number is p
pageOf(p) == getPage(_index, page.searchQuery, localStorage, p)

RECURSIVE datesFrom(_, _)
\* the dates of the pages k.. of a sequence of pages, one page after the other
datesFrom(pages, k) ==
    IF k > Len(pages) THEN <<>> ELSE pages[k].dates \o datesFrom(pages, k + 1)

\* pages, the values getPage returned for the page numbers 1..Len(pages),
\* partition the filtered list
partition(filtered, pages) ==
    /\ datesFrom(pages, 1) = filtered
    /\ \A p \in 1..Len(pages) :
          /\ pages[p].page = p
          /\ pages[p].totalPages = Len(pages)
          /\ Len(pages[p].dates) <= PAGE_SIZE
          /\ p < Len(pages) => Len(pages[p].dates) = PAGE_SIZE
          /\ pages[p].hasNext <=> p < Len(pages)
          /\ pages[p].hasPrev <=> p > 1

\* the page number getPage reports in the current state
pageShown == pageOf(page.currentPage).page

\* nextPage; call keeps the page number stored (arg) and the one getPage
\* reported (before) when it was called, and what it returned (ret)
TurnNext ==
    LET out == pageOf(page.currentPage)
    IN  /\ page' = noResult([page EXCEPT !.currentPage =
                                IF out.hasNext THEN out.page + 1 ELSE out.page])
        /\ call' = [op |-> "nextPage", arg |-> page.currentPage, before |-> out.page,
                    ret |-> out.hasNext]
        /\ UNCHANGED <<localStorage, _index>>
        /\ indexFrame

\* prevPage, with the same record
TurnPrev ==
    /\ page' = noResult([page EXCEPT !.currentPage = IF @ > 1 THEN @ - 1 ELSE @])
    /\ call' = [op |-> "prevPage", arg |-> page.currentPage, before |-> pageShown,
                ret |-> page.currentPage > 1]
    /\ UNCHANGED <<localStorage, _index>>
    /\ indexFrame

\* listings, searches and page turns
NextPages ==
    \/ \E n \in ListingSizes : SetDates(n)
    \/ \E query \in Queries : SetSearchQuery(query)
    \/ GetPage
    \/ TurnNext
    \/ TurnPrev
    \/ \E p \in PageNumbers : GoToPage(p)

SpecPages == InitIndex /\ [][NextPages]_vars

\* C38: for every filtered date list the pages getPage returns for the page
\* numbers 1..totalPages partition it: one after the other they are the filtered
\* list, each holds at most PAGE_SIZE dates and only the last may hold fewer,
\* hasNext is true exactly when page < totalPages and hasPrev exactly when
\* page > 1; and after a nextPage or prevPage, getPage reports another page
\* number than before only when the call returned true.
C38_PagesPartition ==
    /\ LET filtered == getFilteredDates(_index, page.searchQuery, localStorage)
       IN  partition(filtered, [p \in 1..pagesFor(Len(filtered)) |-> pageOf(p)])
    /\ call.op \in {"nextPage", "prevPage"} =>
          (pageShown # call.before => call.ret = TRUE)

\* nextPage returned true on the first of two pages: getPage now reports the
\* second and last page, which is not full
C38_Witness ==
    /\ call.op = "nextPage" /\ call.ret = TRUE /\ call.before = 1
    /\ pageShown = 2
    /\ pageOf(2).totalPages = 2
    /\ Len(pageOf(2).dates) >= 1 /\ Len(pageOf(2).dates) < PAGE_SIZE
    /\ pageOf(2).hasPrev /\ ~pageOf(2).hasNext


\* ------------------------------------------------- withRetry's backoff waits
\* C39: the backoff waits of withRetry occur only between attempts and double
\* each time, 1000 ms before the second attempt and 2000 ms before the third: a
\* run that has ended after k attempts has made exactly k - 1 waits, none of
\* them after its last attempt.
C39_WaitsBetweenAttempts ==
    /\ \A k \in 1..Len(retry.waits) : retry.waits[k] = 1000 * (2 ^ (k - 1))
    /\ retryEnded => Len(retry.waits) = retry.attempts - 1


====
